---- MODULE Spec2Model ----
(***************************************************************************)
(* Verification model of fimfareader: the index loader (archive/parser.rs),*)
(* the interner (archive/interner.rs), the tag interning of the decoder    *)
(* (archive/story.rs), the fetcher's lookup, parallel filter and container *)
(* lock (archive/fetcher.rs), the query parser and optimizer               *)
(* (query/src/parser.rs, query/src/optimizer.rs), and the full-text index  *)
(* build and search predicate (search/src/lib.rs).                         *)
(***************************************************************************)
EXTENDS Integers, Sequences, FiniteSets, TLC

\* ---------------------------------------------------------------- bounds
\* Longest index (in lines) fed to parse.
MaxLines == 4
\* Story ids of the body lines of a well-framed index are 1..MaxId.
MaxId == 2
\* Calls of intern made by each thread.
MaxCalls == 2
\* Story ids of a loaded table are 0..MaxKey.
MaxKey == 4
\* Largest table handed to the index build.
MaxStories == 3
\* Most body lines of a well-framed index (`{`, body, `}`).
MaxBody == 2
\* Last day the clock reaches.
MaxDay == 5
\* Most documents of the index that match a text.
MaxHits == 34
\* Most items of a stream whose reads can fail.
MaxStream == 3
\* Most characters of a value that is written with escapes.
MaxValue == 4
\* Most rows of a story view.
MaxRows == 3

\* The rayon pool of par_bridge: two decoder workers.
Workers == {1, 2}
\* Threads that call Interner::intern.
Threads == {1, 2}

VARIABLES
    \* ---- parse (archive/parser.rs)
    lines,       \* the BufRead stream, one element per line
    pos,         \* number of lines the producer has taken from reader.lines()
    ppc,         \* producer position in parse
    wrappers,    \* the String accumulator of one-character lines
    txAlive,     \* the work Sender is not dropped yet
    chan,        \* work channel: indexes (into lines) of the lines in flight
    rxAlive,     \* the work Receiver (moved into the bridge) is not dropped yet
    wk,          \* per pool worker: position in the par_bridge fold
    full,        \* short-circuit flag of collect::<Result<_>>
    werr,        \* the error saved by collect::<Result<_>> ("" = none)
    rpc,         \* position of the spawned reducer thread
    rres,        \* the value the reducer thread is about to send
    res,         \* result channel contents
    resTxAlive,  \* the result Sender is not dropped yet
    result,      \* return value of parse
    sendFailed,  \* history: tx.send(line) has returned Err
    \* ---- interners
    store,       \* Interner<Author>: HashSet<Arc<Author>>
    tagStore,    \* TAGS: HashSet<&'static Tag>
    ith,         \* threads calling Interner::intern: position in the call
    handed,      \* history: handles intern returned since the last clear
    \* ---- Fetcher
    index,       \* Fetcher.index: the loaded story table
    fetched,     \* the last call of fetch: its key and what it returned
    \* ---- Searcher::make_index (search/src/lib.rs)
    payload,     \* per story of the table: state of its payload package
    ipc,         \* position of the thread running make_index
    cacheDir,    \* the directory cache/<identity> exists
    itodo,       \* stories par_iter has not handed to a worker yet
    iw,          \* per pool worker: the story it is indexing (0 = none)
    ipanic,      \* a for_each closure has panicked
    idocs,       \* story ids of the documents given to writer.add_document
    commits,     \* number of writer.commit() calls
    stored,      \* the directory's committed index: the story ids of its documents
    \* ---- Fetcher::filter (archive/fetcher.rs)
    fpred,       \* the predicate: ids of the stories it is true of
    fjobs,       \* the pieces of the table, in table order, and their results
    fout,        \* what filter returned
    forder,      \* history: first positions of the pieces, in folding order
    \* ---- queries (query/src/parser.rs, query/src/optimizer.rs)
    now,         \* Utc::now()
    qtext,       \* the query text
    qstories,    \* the story table the query runs on
    qrun,        \* per run of the query: position, filter, result
    \* ---- Fetcher.archive (archive/fetcher.rs)
    mutex,       \* the thread that holds the guard of archive (0 = none)
    rth,         \* threads calling read or identity: position in the call
    zpos,        \* the entry the container's reader is positioned at
    \* ---- Searcher::parse (search/src/lib.rs)
    hits,        \* the documents that match the text, best score first
    searches,    \* number of calls of Searcher::search
    built,       \* Searcher::parse has returned its closure
    sids,        \* the vector the closure captured
    applied,     \* the last call of the closure: the story id, the answer
    \* ---- the interactive shells (src/main.rs, cli/src/main.rs)
    shell,       \* which binary runs
    sin,         \* stdin: the lines not read yet
    spc,         \* position of main
    sbuf,        \* the line handed to the parser
    sfilter,     \* the filter parse returned
    sout,        \* the last message printed
    \* ---- deserialize (archive/parser.rs, archive/story.rs)
    jline,       \* an index line: its key and the keys of its JSON objects
    jres,        \* what deserialize returned for it
    \* ---- value extraction (query/src/parser.rs)
    ev,          \* a value a user wants to compare with
    eres,        \* what target returned for the value written with escapes
    \* ---- StoryView (gtk/src/components/app.rs)
    visible,     \* StoryView.visible: the cached flag of every row
    column1,     \* column 1 of every row of the ListStore
    bitmap,      \* the local of filter: the predicate's result per story
    vi,          \* the row the loop of filter is at (0 = no call is running)
    vwrites,     \* history: the rows set_value was called on in this call
    vprev,       \* history: visible as it was when the call began
    vpred        \* history: the stories the last predicate is true of

parseVars == <<lines, pos, ppc, wrappers, txAlive, chan, rxAlive, wk, full,
               werr, rpc, rres, res, resTxAlive, result, sendFailed>>
internVars == <<store, tagStore>>
threadVars == <<ith, handed>>
fetchVars == <<index, fetched>>
indexVars == <<payload, ipc, cacheDir, itodo, iw, ipanic, idocs, commits,
               stored>>
filterVars == <<fpred, fjobs, fout, forder>>
queryVars == <<now, qtext, qstories, qrun>>
readerVars == <<mutex, rth, zpos>>
searchVars == <<hits, searches, built, sids, applied>>
shellVars == <<shell, sin, spc, sbuf, sfilter, sout>>
decodeVars == <<jline, jres>>
escapeVars == <<ev, eres>>
viewVars == <<visible, column1, bitmap, vi, vwrites, vprev, vpred>>
lastVars == <<shellVars, decodeVars, escapeVars, viewVars>>
exceptFilter == <<parseVars, internVars, threadVars, fetchVars, indexVars,
                  queryVars, readerVars, searchVars, lastVars>>
exceptQuery == <<parseVars, internVars, threadVars, fetchVars, indexVars,
                 filterVars, readerVars, searchVars, lastVars>>
exceptReaders == <<parseVars, internVars, threadVars, fetchVars, indexVars,
                   filterVars, queryVars, searchVars, lastVars>>
exceptSearch == <<parseVars, internVars, threadVars, fetchVars, indexVars,
                  filterVars, queryVars, readerVars, lastVars>>
earlyVars == <<parseVars, internVars, threadVars, fetchVars, indexVars,
               filterVars, queryVars, readerVars, searchVars>>
exceptShell == <<earlyVars, decodeVars, escapeVars, viewVars>>
exceptDecode == <<earlyVars, shellVars, escapeVars, viewVars>>
exceptEscape == <<earlyVars, shellVars, decodeVars, viewVars>>
exceptView == <<earlyVars, shellVars, decodeVars, escapeVars>>
laterVars == <<filterVars, queryVars, readerVars, searchVars, lastVars>>
restVars == <<threadVars, fetchVars, indexVars, laterVars>>
vars == <<parseVars, internVars, restVars>>

\* ------------------------------------------------------------ index lines
\* A shared handle: the value v it holds and the allocation a it points to.
\* Two handles are reference-equal iff they are equal as records.
NoHandle == [v |-> 0, a |-> 0]

NoStory == [id |-> 0, author |-> 0, tags |-> <<>>]
NoKey == [n |-> FALSE, v |-> 0]

\* A line of exactly one byte.
OneChar(c) ==
    [one |-> TRUE, ch |-> c, colon |-> FALSE, key |-> NoKey,
     valid |-> FALSE, story |-> NoStory]

\* A line `"<key>": <json>,` ; colon: the line contains a ':' ; key.n: the
\* trimmed key parses as i64 ; valid: the json decodes to a Story.
Body(colon, key, valid, story) ==
    [one |-> FALSE, ch |-> "", colon |-> colon, key |-> key,
     valid |-> valid, story |-> story]

NumKey(k) == [n |-> TRUE, v |-> k]

\* An item of reader.lines() that is an Err: the read failed.
Unreadable ==
    [one |-> FALSE, ch |-> "io", colon |-> FALSE, key |-> NoKey,
     valid |-> FALSE, story |-> NoStory]
Readable(l) == l.ch # "io"
StoryJson(id, author, tags) == [id |-> id, author |-> author, tags |-> tags]
GoodLine(id, author, tags) ==
    Body(TRUE, NumKey(id), TRUE, StoryJson(id, author, tags))

OneCharLines == {OneChar("{"), OneChar("}"), OneChar("x")}

\* One body line for each way deserialize fails.
BadLines ==
    { Body(FALSE, NoKey, FALSE, NoStory),                       \* no ':'
      Body(TRUE, NumKey(1), FALSE, NoStory),                    \* JSON error
      Body(TRUE, NoKey, TRUE, StoryJson(1, 1, <<>>)),           \* bad key
      Body(TRUE, NumKey(0), TRUE, StoryJson(1, 1, <<>>)) }      \* key # id

\* Story lines of two ids, one author block, no tags.
PlainLines == {GoodLine(id, 1, <<>>) : id \in {1, 2}}

\* Story lines: per id, two author blocks and tag lists that repeat a tag
\* inside a story and across stories.
Authors == {1, 2}
StoryKinds ==
    { [author |-> 1, tags |-> <<1, 1>>],
      [author |-> 1, tags |-> <<1, 2>>],
      [author |-> 2, tags |-> <<2>>] }
RichLines ==
    {GoodLine(id, k.author, k.tags) : id \in 1..MaxId, k \in StoryKinds}

SeqsUpTo(S, n) == UNION {[1..m -> S] : m \in 0..n}

\* ------------------------------------------------------------- results
NoResult == [kind |-> "none", table |-> <<>>, err |-> ""]
Ok(t) == [kind |-> "ok", table |-> t, err |-> ""]
Err(e) == [kind |-> "err", table |-> <<>>, err |-> e]

\* ------------------------------------------------------------- Interner
\* Interner::get: the stored handle equal (by content) to value, if any.
InternerHas(s, value) == \E h \in s : h.v = value
InternerGet(s, value) ==
    IF InternerHas(s, value) THEN CHOOSE h \in s : h.v = value ELSE NoHandle

\* Interner::set: Arc::new(value) is allocation alloc; HashSet::insert keeps
\* the stored element when an equal one is present; the new arc is returned.
InternerSetArc(value, alloc) == [v |-> value, a |-> alloc]
InternerSetStore(s, value, alloc) ==
    IF InternerHas(s, value) THEN s ELSE s \cup {InternerSetArc(value, alloc)}

\* interned_tag: under the TAGS lock, every tag is replaced by the stored
\* reference, or leaked (allocation alloc) and stored.
RECURSIVE interned_tag(_, _, _)
interned_tag(s, tags, alloc) ==
    IF tags = <<>> THEN [store |-> s, out |-> <<>>]
    ELSE LET t == Head(tags)
             h == IF InternerHas(s, t) THEN InternerGet(s, t)
                  ELSE [v |-> t, a |-> alloc]
             r == interned_tag(s \cup {h}, Tail(tags), alloc)
         IN [store |-> r.store, out |-> <<h>> \o r.out]

\* ------------------------------------------------- sort, dedup_by_key, dedup
\* Mutant of sort_by_key: the vector is left in delivery order.
sort_by_key_Unsorted(v) == v

\* Vec::sort_by_key(|story| story.id): stable.
RECURSIVE InsertByKey(_, _)
InsertByKey(sorted, s) ==
    IF sorted = <<>> THEN <<s>>
    ELSE IF Head(sorted).id <= s.id
         THEN <<Head(sorted)>> \o InsertByKey(Tail(sorted), s)
         ELSE <<s>> \o sorted

RECURSIVE sort_by_key(_)
sort_by_key(v) ==
    IF v = <<>> THEN <<>>
    ELSE InsertByKey(sort_by_key(SubSeq(v, 1, Len(v) - 1)), v[Len(v)])

\* Mutant of dedup_by_key: nothing is removed.
dedup_by_key_KeepAll(v) == v

\* Vec::dedup_by_key(|story| story.id): of a run of consecutive elements with
\* the same key only the first is kept.
RECURSIVE dedup_by_key(_)
dedup_by_key(v) ==
    IF Len(v) <= 1 THEN v
    ELSE IF v[1].id = v[2].id
         THEN dedup_by_key(<<v[1]>> \o SubSeq(v, 3, Len(v)))
         ELSE <<v[1]>> \o dedup_by_key(Tail(v))

\* Mutant of DedupAuthors: the handles are left as decoded.
DedupAuthors_Keep(stories, authors) == stories

\* dedup, first loop: a story whose author is already in the set takes the
\* stored handle, else its handle is stored.
RECURSIVE DedupAuthors(_, _)
DedupAuthors(stories, authors) ==
    IF stories = <<>> THEN <<>>
    ELSE LET s == Head(stories)
         IN IF InternerHas(authors, s.author.v)
            THEN <<[s EXCEPT !.author = InternerGet(authors, s.author.v)]>>
                 \o DedupAuthors(Tail(stories), authors)
            ELSE <<s>> \o DedupAuthors(Tail(stories), authors \cup {s.author})

\* HashSet::extend: insert one by one, an equal stored element is kept.
RECURSIVE ExtendSet(_, _)
ExtendSet(set, seq) ==
    IF seq = <<>> THEN set
    ELSE ExtendSet(IF InternerHas(set, Head(seq).v) THEN set
                   ELSE set \cup {Head(seq)}, Tail(seq))

MapGet(set, seq) == [i \in 1..Len(seq) |-> InternerGet(set, seq[i].v)]

\* dedup, second loop: the unseen tags of a story are stored, then every tag
\* of the story is replaced by the stored handle.
RECURSIVE DedupTags(_, _)
DedupTags(stories, tags) ==
    IF stories = <<>> THEN <<>>
    ELSE LET s == Head(stories)
             tags2 == ExtendSet(tags, s.tags)
         IN <<[s EXCEPT !.tags = MapGet(tags2, s.tags)]>>
            \o DedupTags(Tail(stories), tags2)

dedup(stories) == DedupTags(DedupAuthors(stories, {}), {})

\* Mutant of Reduce: the saved decode error is not looked at.
Reduce_DropsError(collected, error) ==
    LET stories == dedup_by_key(sort_by_key(collected))
    IN IF Len(collected) # Len(stories)
       THEN Err("Found duplicate story")
       ELSE Ok(stories)

\* What the reducer thread sends once collect has returned.
Reduce(collected, error) ==
    IF error # "" THEN Err(error)
    ELSE LET stories == dedup_by_key(sort_by_key(collected))
         IN IF Len(collected) # Len(stories)
            THEN Err("Found duplicate story")
            ELSE Ok(stories)

RECURSIVE Concat(_)
Concat(ss) == IF ss = <<>> THEN <<>> ELSE Head(ss) \o Concat(Tail(ss))

\* ------------------------------------------------------------------ parse
IdleWorker == [pc |-> "next", line |-> 0, got |-> NoHandle, acc |-> <<>>]

InitParse(input) ==
    /\ lines \in input
    /\ pos = 0
    /\ ppc = "read"
    /\ wrappers = <<>>
    /\ txAlive = TRUE
    /\ chan = <<>>
    /\ rxAlive = TRUE
    /\ wk = [w \in Workers |-> IdleWorker]
    /\ full = FALSE
    /\ werr = ""
    /\ rpc = "collect"
    /\ rres = NoResult
    /\ res = <<>>
    /\ resTxAlive = TRUE
    /\ result = NoResult
    /\ sendFailed = FALSE

InitIntern ==
    /\ store = {}
    /\ tagStore = {}

\* for line in reader.lines(): a one-byte line goes to wrappers, any other
\* line is sent on the work channel.
ReadWrapper ==
    /\ ppc = "read"
    /\ pos < Len(lines)
    /\ lines[pos + 1].one
    /\ wrappers' = Append(wrappers, lines[pos + 1].ch)
    /\ pos' = pos + 1
    /\ UNCHANGED <<lines, ppc, txAlive, chan, rxAlive, wk, full, werr, rpc,
                   rres, res, resTxAlive, result, sendFailed, internVars, restVars>>

SendLine ==
    /\ ppc = "read"
    /\ pos < Len(lines)
    /\ ~lines[pos + 1].one
    /\ Readable(lines[pos + 1])
    /\ rxAlive
    /\ chan' = Append(chan, pos + 1)
    /\ pos' = pos + 1
    /\ UNCHANGED <<lines, ppc, wrappers, txAlive, rxAlive, wk, full, werr,
                   rpc, rres, res, resTxAlive, result, sendFailed, internVars, restVars>>

\* let line = line.map_err(..)?: the read failed, parse returns; the work
\* Sender and the result Receiver are dropped with its frame.
ReadError ==
    /\ ppc = "read"
    /\ pos < Len(lines)
    /\ ~Readable(lines[pos + 1])
    /\ pos' = pos + 1
    /\ txAlive' = FALSE
    /\ result' = Err("Could not read line")
    /\ ppc' = "done"
    /\ UNCHANGED <<lines, wrappers, chan, rxAlive, wk, full, werr, rpc, rres,
                   res, resTxAlive, sendFailed, internVars, restVars>>

\* Mutant of SendFails: the failed send is ignored and the loop goes on.
SendFails_Continue ==
    /\ ppc = "read"
    /\ pos < Len(lines)
    /\ ~lines[pos + 1].one
    /\ Readable(lines[pos + 1])
    /\ ~rxAlive
    /\ pos' = pos + 1
    /\ sendFailed' = TRUE
    /\ UNCHANGED <<lines, ppc, wrappers, txAlive, chan, rxAlive, wk, full,
                   werr, rpc, rres, res, resTxAlive, result, internVars, restVars>>

\* tx.send(line) is Err: the receiver is gone. The producer leaves the loop.
SendFails ==
    /\ ppc = "read"
    /\ pos < Len(lines)
    /\ ~lines[pos + 1].one
    /\ Readable(lines[pos + 1])
    /\ ~rxAlive
    /\ pos' = pos + 1
    /\ ppc' = "recv_err"
    /\ sendFailed' = TRUE
    /\ UNCHANGED <<lines, wrappers, txAlive, chan, rxAlive, wk, full, werr,
                   rpc, rres, res, resTxAlive, result, internVars, restVars>>

\* return Err(match rx.recv() { ... }) after a failed send.
RecvAfterSendFailure ==
    /\ ppc = "recv_err"
    /\ res # <<>> \/ ~resTxAlive
    /\ result' = IF res = <<>> THEN Err("Parser disappeared unexpectedly")
                 ELSE IF Head(res).kind = "ok"
                      THEN Err("Parser returned unexpectedly")
                      ELSE Head(res)
    /\ res' = <<>>
    /\ txAlive' = FALSE
    /\ ppc' = "done"
    /\ UNCHANGED <<lines, pos, wrappers, chan, rxAlive, wk, full, werr, rpc,
                   rres, resTxAlive, sendFailed, internVars, restVars>>

\* Mutant of WrappersOk: only the number of one-byte lines is checked.
WrappersOk_LengthOnly(w) == Len(w) = 2

\* wrappers != "{}"
WrappersOk(w) == w = <<"{", "}">>

\* Mutant of DropTx: no drop(tx); the Sender lives until parse returns.
DropTx_KeepsSender ==
    /\ ppc = "read"
    /\ pos = Len(lines)
    /\ IF ~WrappersOk(wrappers)
       THEN /\ result' = Err("Invalid file structure")
            /\ txAlive' = FALSE
            /\ ppc' = "done"
       ELSE /\ result' = result
            /\ txAlive' = txAlive
            /\ ppc' = "recv"
    /\ UNCHANGED <<lines, pos, wrappers, chan, rxAlive, wk, full, werr, rpc,
                   rres, res, resTxAlive, sendFailed, internVars, restVars>>

\* End of the stream: drop(tx), then the wrappers check.
DropTx ==
    /\ ppc = "read"
    /\ pos = Len(lines)
    /\ txAlive' = FALSE
    /\ IF ~WrappersOk(wrappers)
       THEN /\ result' = Err("Invalid file structure")
            /\ ppc' = "done"
       ELSE /\ result' = result
            /\ ppc' = "recv"
    /\ UNCHANGED <<lines, pos, wrappers, chan, rxAlive, wk, full, werr, rpc,
                   rres, res, resTxAlive, sendFailed, internVars, restVars>>

\* let result = rx.recv().map_err(..)?; Ok(dedup(result?))
RecvResult ==
    /\ ppc = "recv"
    /\ res # <<>> \/ ~resTxAlive
    /\ result' = IF res = <<>> THEN Err("Missing parser result")
                 ELSE IF Head(res).kind = "ok"
                      THEN Ok(dedup(Head(res).table))
                      ELSE Head(res)
    /\ res' = <<>>
    /\ ppc' = "done"
    /\ UNCHANGED <<lines, pos, wrappers, txAlive, chan, rxAlive, wk, full,
                   werr, rpc, rres, resTxAlive, sendFailed, internVars, restVars>>

\* ---- the par_bridge fold of one pool worker
\* iter.next() returns a line.
TakeLine(w) ==
    /\ rpc = "collect"
    /\ wk[w].pc = "next"
    /\ chan # <<>>
    /\ wk' = [wk EXCEPT ![w].pc = "decode", ![w].line = Head(chan)]
    /\ chan' = Tail(chan)
    /\ UNCHANGED <<lines, pos, ppc, wrappers, txAlive, rxAlive, full, werr,
                   rpc, rres, res, resTxAlive, result, sendFailed, internVars, restVars>>

\* iter.next() returns None: the channel is empty and the sender dropped.
StreamEnd(w) ==
    /\ rpc = "collect"
    /\ wk[w].pc = "next"
    /\ chan = <<>>
    /\ ~txAlive
    /\ wk' = [wk EXCEPT ![w].pc = "done"]
    /\ UNCHANGED <<lines, pos, ppc, wrappers, txAlive, chan, rxAlive, full,
                   werr, rpc, rres, res, resTxAlive, result, sendFailed,
                   internVars, restVars>>

\* The item is an Err: collect saves the first error and raises the flag.
Fail(w, msg) ==
    /\ wk' = [wk EXCEPT ![w].pc = "done", ![w].line = 0, ![w].got = NoHandle]
    /\ werr' = IF werr = "" THEN msg ELSE werr
    /\ full' = TRUE

\* deserialize, up to the read-locked lookup of the author: splitn, and
\* from_str reaching Interner::get for the author block (dedup takes the
\* author as an Arc<Author>). A line without ':' or with undecodable JSON
\* fails here, before anything is interned.
DecodeGet(w) ==
    /\ rpc = "collect"
    /\ wk[w].pc = "decode"
    /\ LET line == lines[wk[w].line]
       IN IF ~line.colon THEN Fail(w, "Invalid line format")
          ELSE IF ~line.valid THEN Fail(w, "JSON error")
          ELSE /\ wk' = [wk EXCEPT ![w].pc = "intern",
                           ![w].got = InternerGet(store, line.story.author)]
               /\ UNCHANGED <<full, werr>>
    /\ UNCHANGED <<lines, pos, ppc, wrappers, txAlive, chan, rxAlive, rpc,
                   rres, res, resTxAlive, result, sendFailed, internVars, restVars>>

\* deserialize, the rest: Interner::set when the lookup found nothing,
\* interned_tag, the key checks; an Ok story is consumed by the folder.
DecodeSet(w) ==
    /\ rpc = "collect"
    /\ wk[w].pc = "intern"
    /\ LET i == wk[w].line
           line == lines[i]
           author == IF wk[w].got # NoHandle THEN wk[w].got
                     ELSE InternerSetArc(line.story.author, i)
           tags == interned_tag(tagStore, line.story.tags, i)
           story == [id |-> line.story.id, author |-> author,
                     tags |-> tags.out]
       IN /\ store' = IF wk[w].got # NoHandle THEN store
                      ELSE InternerSetStore(store, line.story.author, i)
          /\ tagStore' = tags.store
          /\ IF ~line.key.n THEN Fail(w, "Invalid line key")
             ELSE IF line.key.v # story.id THEN Fail(w, "Line key mismatch")
             ELSE /\ wk' = [wk EXCEPT ![w].pc = IF full THEN "done" ELSE "next",
                              ![w].line = 0, ![w].got = NoHandle,
                              ![w].acc = Append(@, story)]
                  /\ UNCHANGED <<full, werr>>
    /\ UNCHANGED <<lines, pos, ppc, wrappers, txAlive, chan, rxAlive, rpc,
                   rres, res, resTxAlive, result, sendFailed, restVars>>

\* ---- the thread of spawn_parser
\* collect() returns: the bridge and with it the work Receiver are dropped.
CollectDone ==
    /\ rpc = "collect"
    /\ \A w \in Workers : wk[w].pc = "done"
    /\ rxAlive' = FALSE
    /\ chan' = <<>>
    /\ rres' = Reduce(Concat([w \in 1..Cardinality(Workers) |-> wk[w].acc]),
                      werr)
    /\ wk' = [w \in Workers |-> [IdleWorker EXCEPT !.pc = "done"]]
    /\ rpc' = "send"
    /\ UNCHANGED <<lines, pos, ppc, wrappers, txAlive, full, werr, res,
                   resTxAlive, result, sendFailed, internVars, restVars>>

\* tx.send(..) of the result, then the thread ends.
SendResult ==
    /\ rpc = "send"
    /\ res' = IF ppc = "done" THEN res ELSE Append(res, rres)
    /\ resTxAlive' = FALSE
    /\ rpc' = "exit"
    /\ UNCHANGED <<lines, pos, ppc, wrappers, txAlive, chan, rxAlive, wk,
                   full, werr, rres, result, sendFailed, internVars, restVars>>

\* A panic while a line is decoded unwinds the thread: the work Receiver and
\* the result Sender are dropped, nothing is sent.
WorkerPanic ==
    /\ rpc = "collect"
    /\ \E w \in Workers : wk[w].pc \in {"decode", "intern"}
    /\ rxAlive' = FALSE
    /\ chan' = <<>>
    /\ resTxAlive' = FALSE
    /\ wk' = [w \in Workers |-> [IdleWorker EXCEPT !.pc = "done"]]
    /\ rpc' = "panicked"
    /\ UNCHANGED <<lines, pos, ppc, wrappers, txAlive, full, werr, rres,
                   res, result, sendFailed, internVars, restVars>>

NextParse ==
    \/ ReadWrapper
    \/ SendLine
    \/ SendFails
    \/ RecvAfterSendFailure
    \/ DropTx
    \/ RecvResult
    \/ \E w \in Workers : TakeLine(w)
    \/ \E w \in Workers : StreamEnd(w)
    \/ \E w \in Workers : DecodeGet(w)
    \/ \E w \in Workers : DecodeSet(w)
    \/ CollectDone
    \/ SendResult
    \/ WorkerPanic

\* The steps of each thread of parse, and parse on a stream whose reads can
\* fail.
Producer ==
    \/ ReadWrapper
    \/ SendLine
    \/ SendFails
    \/ RecvAfterSendFailure
    \/ DropTx
    \/ RecvResult
    \/ ReadError
PoolWorker(w) ==
    \/ TakeLine(w)
    \/ StreamEnd(w)
    \/ DecodeGet(w)
    \/ DecodeSet(w)
Reducer ==
    \/ CollectDone
    \/ SendResult
NextStream ==
    \/ NextParse
    \/ ReadError

\* -------------------------------------------- Interner::intern, threads
IdleThread == [pc |-> "idle", val |-> 0, calls |-> 0, stale |-> FALSE]

InitThreads ==
    /\ ith = [t \in Threads |-> IdleThread]
    /\ handed = {}

\* The allocation made by Arc::new in call number n (from 0) of thread t.
AllocId(t, n) == n * Cardinality(Threads) + t

\* intern, first half: self.get(&value) under the read lock. A hit is
\* returned at once.
InternLookup(t, v) ==
    /\ ith[t].pc = "idle"
    /\ ith[t].calls < MaxCalls
    /\ IF InternerHas(store, v)
       THEN /\ handed' = handed \cup {InternerGet(store, v)}
            /\ ith' = [ith EXCEPT ![t].calls = @ + 1]
       ELSE /\ handed' = handed
            /\ ith' = [ith EXCEPT ![t].pc = "set", ![t].val = v]
    /\ UNCHANGED <<parseVars, laterVars, internVars, fetchVars, indexVars>>

\* intern, second half: self.set(value) under the write lock.
InternInsert(t) ==
    /\ ith[t].pc = "set"
    /\ LET arc == InternerSetArc(ith[t].val, AllocId(t, ith[t].calls))
       IN /\ store' = InternerSetStore(store, ith[t].val,
                                       AllocId(t, ith[t].calls))
          /\ handed' = IF ith[t].stale THEN handed ELSE handed \cup {arc}
    /\ ith' = [ith EXCEPT ![t].pc = "idle", ![t].val = 0, ![t].calls = @ + 1,
                          ![t].stale = FALSE]
    /\ UNCHANGED <<parseVars, laterVars, tagStore, fetchVars, indexVars>>

\* Interner::clear under the write lock. Calls it cuts in two are marked.
InternerClear ==
    /\ store # {} \/ handed # {}
    /\ store' = {}
    /\ handed' = {}
    /\ ith' = [t \in Threads |->
                 IF ith[t].pc = "set" THEN [ith[t] EXCEPT !.stale = TRUE]
                 ELSE ith[t]]
    /\ UNCHANGED <<parseVars, laterVars, tagStore, fetchVars, indexVars>>

NextIntern ==
    \/ \E t \in Threads, v \in Authors : InternLookup(t, v)
    \/ \E t \in Threads : InternInsert(t)
    \/ InternerClear

\* --------------------------------------------------------- Fetcher::fetch
NoFetch == [called |-> FALSE, key |-> 0, some |-> FALSE, story |-> NoStory]

RECURSIVE SortedSeq(_)
SortedSeq(ids) ==
    IF ids = {} THEN <<>>
    ELSE LET m == CHOOSE x \in ids : \A y \in ids : x <= y
         IN <<[id |-> m, author |-> 0, tags |-> <<>>]>> \o SortedSeq(ids \ {m})

\* The tables a loaded Fetcher can hold: strictly ascending by id.
LoadedTables == {SortedSeq(ids) : ids \in SUBSET (0..MaxKey)}

InitFetch(tables) ==
    /\ index \in tables
    /\ fetched = NoFetch

\* Mutant of binary_search_by_key: the upper end skips the probed element.
RECURSIVE binary_search_SkipsMid(_, _, _, _)
binary_search_SkipsMid(v, key, left, right) ==
    IF left < right
    THEN LET mid == left + ((right - left) \div 2)
         IN IF v[mid + 1].id < key
            THEN binary_search_SkipsMid(v, key, mid + 1, right)
            ELSE IF v[mid + 1].id > key
                 THEN binary_search_SkipsMid(v, key, left, mid - 1)
                 ELSE [ok |-> TRUE, i |-> mid]
    ELSE [ok |-> FALSE, i |-> left]

\* slice::binary_search_by_key(&key, |story| story.id) on the half-open
\* range left..right of 0-based positions.
RECURSIVE binary_search_by_key(_, _, _, _)
binary_search_by_key(v, key, left, right) ==
    IF left < right
    THEN LET mid == left + ((right - left) \div 2)
         IN IF v[mid + 1].id < key
            THEN binary_search_by_key(v, key, mid + 1, right)
            ELSE IF v[mid + 1].id > key
                 THEN binary_search_by_key(v, key, left, mid)
                 ELSE [ok |-> TRUE, i |-> mid]
    ELSE [ok |-> FALSE, i |-> left]

\* Fetcher::fetch(key)
Fetch(key) ==
    /\ LET r == binary_search_by_key(index, key, 0, Len(index))
       IN fetched' = IF r.ok
                     THEN [called |-> TRUE, key |-> key, some |-> TRUE,
                           story |-> index[r.i + 1]]
                     ELSE [called |-> TRUE, key |-> key, some |-> FALSE,
                           story |-> NoStory]
    /\ UNCHANGED <<parseVars, laterVars, internVars, threadVars, index, indexVars>>

NextFetch == \E key \in (0 - 1)..(MaxKey + 1) : Fetch(key)

\* --------------------------------------------------- Searcher::make_index
\* "not_utf8": the package opens, and one of its .html entries is not UTF-8.
PayloadStates == {"ok", "missing", "corrupt", "not_utf8"}

InitIndexBuild(tables) ==
    /\ index \in tables
    /\ payload \in [1..Len(index) -> PayloadStates]
    /\ ipc = "start"
    /\ cacheDir = FALSE
    /\ itodo = {}
    /\ iw = [w \in Workers |-> 0]
    /\ ipanic = FALSE
    /\ idocs = <<>>
    /\ commits = 0
    /\ stored = <<>>

\* load_index finds no directory and calls make_index: identity,
\* create_dir_all, Index::create, index.writer: the directory exists from
\* here on, holding an index without documents; for_each starts.
BuildStart ==
    /\ ipc = "start"
    /\ ~cacheDir
    /\ cacheDir' = TRUE
    /\ itodo' = 1..Len(index)
    /\ ipc' = "for_each"
    /\ UNCHANGED <<parseVars, laterVars, internVars, threadVars, fetchVars, payload, iw,
                   ipanic, idocs, commits, stored>>

\* A pool worker is handed a story of the table.
TakeStory(w, i) ==
    /\ ipc = "for_each"
    /\ iw[w] = 0
    /\ i \in itodo
    /\ itodo' = itodo \ {i}
    /\ iw' = [iw EXCEPT ![w] = i]
    /\ UNCHANGED <<parseVars, laterVars, internVars, threadVars, fetchVars, payload, ipc,
                   cacheDir, ipanic, idocs, commits, stored>>

\* The closure for one story: archive.by_name(path).unwrap(),
\* read_to_end(..).unwrap(), ZipArchive::new(..).unwrap(), the .html entries,
\* writer.add_document(doc). An unwrap of an Err panics.
IndexStory(w) ==
    /\ ipc = "for_each"
    /\ iw[w] # 0
    /\ IF payload[iw[w]] = "ok"
       THEN /\ idocs' = Append(idocs, index[iw[w]].id)
            /\ ipanic' = ipanic
       ELSE /\ idocs' = idocs
            /\ ipanic' = TRUE
    /\ iw' = [iw EXCEPT ![w] = 0]
    /\ UNCHANGED <<parseVars, laterVars, internVars, threadVars, fetchVars, payload, ipc,
                   cacheDir, itodo, commits, stored>>

\* Mutant of BuildFinish: commit is not held back until the workers are done.
BuildFinish_NoJoin ==
    /\ ipc = "for_each"
    /\ IF ipanic
       THEN /\ ipc' = "panicked"
            /\ commits' = commits
            /\ stored' = stored
       ELSE /\ ipc' = "returned"
            /\ commits' = commits + 1
            /\ stored' = idocs
    /\ UNCHANGED <<parseVars, laterVars, internVars, threadVars, fetchVars, payload,
                   cacheDir, itodo, iw, ipanic, idocs>>

\* for_each returns, or resumes the panic of a closure; writer.commit().
BuildFinish ==
    /\ ipc = "for_each"
    /\ itodo = {}
    /\ \A w \in Workers : iw[w] = 0
    /\ IF ipanic
       THEN /\ ipc' = "panicked"
            /\ commits' = commits
            /\ stored' = stored
       ELSE /\ ipc' = "returned"
            /\ commits' = commits + 1
            /\ stored' = idocs
    /\ UNCHANGED <<parseVars, laterVars, internVars, threadVars, fetchVars, payload,
                   cacheDir, itodo, iw, ipanic, idocs>>

NextIndexBuild ==
    \/ BuildStart
    \/ \E w \in Workers, i \in 1..MaxStories : TakeStory(w, i)
    \/ \E w \in Workers : IndexStory(w)
    \/ BuildFinish

\* ------------------------------------------- Searcher::load_index, rerun
\* load_index finds the directory cache/<identity>: it opens the index that
\* is there (MmapDirectory::open, Index::open_or_create) and builds nothing.
Reuse ==
    /\ ipc = "start"
    /\ cacheDir
    /\ ipc' = "reused"
    /\ UNCHANGED <<parseVars, laterVars, internVars, threadVars, fetchVars, payload,
                   cacheDir, itodo, iw, ipanic, idocs, commits, stored>>

\* The process is ended from outside while for_each runs: nothing is
\* committed, the directory stays.
Abort ==
    /\ ipc = "for_each"
    /\ ipc' = "aborted"
    /\ UNCHANGED <<parseVars, laterVars, internVars, threadVars, fetchVars, payload,
                   cacheDir, itodo, iw, ipanic, idocs, commits, stored>>

\* The program is started again on the same container: the process state is
\* new, the directory and what was committed to it are kept.
NextRun ==
    /\ ipc \in {"returned", "panicked", "reused", "aborted"}
    /\ ipc' = "start"
    /\ itodo' = {}
    /\ iw' = [w \in Workers |-> 0]
    /\ ipanic' = FALSE
    /\ idocs' = <<>>
    /\ commits' = 0
    /\ UNCHANGED <<parseVars, laterVars, internVars, threadVars, fetchVars, payload,
                   cacheDir, stored>>

NextRuns ==
    \/ NextIndexBuild
    \/ Reuse
    \/ Abort
    \/ NextRun

\* -------------------------------------------------------- Fetcher::filter
\* self.index.par_iter().filter(|s| function(s)).collect(): the slice is
\* split in halves any number of times, every piece is folded sequentially
\* into a Vec by whichever worker takes it, and the results of two
\* neighbouring pieces are reduced to one.
NoJobs == <<>>
NoOutput == [done |-> FALSE, list |-> <<>>]

InitFilter ==
    /\ fpred = {}
    /\ fjobs = NoJobs
    /\ fout = NoOutput
    /\ forder = <<>>

\* The piece lo..hi (1-based positions of the table), not folded yet.
Piece(lo, hi) == [lo |-> lo, hi |-> hi, done |-> FALSE, list |-> <<>>]

\* Sequential fold of one piece: the stories of it that the predicate accepts.
RECURSIVE FoldPiece(_, _, _, _)
FoldPiece(table, p, lo, hi) ==
    IF lo > hi THEN <<>>
    ELSE (IF table[lo].id \in p THEN <<table[lo]>> ELSE <<>>)
         \o FoldPiece(table, p, lo + 1, hi)

\* Mutant of collect_reduce: the right result is put first.
collect_reduce_RightFirst(left, right) == right \o left

\* The reducer of collect: the left result followed by the right one.
collect_reduce(left, right) == left \o right

ReplaceJob(jobs, i, new) ==
    SubSeq(jobs, 1, i - 1) \o new \o SubSeq(jobs, i + 1, Len(jobs))

\* filter(function) is called.
FilterCall(p) ==
    /\ fjobs = NoJobs
    /\ ~fout.done
    /\ fpred' = p
    /\ fjobs' = <<Piece(1, Len(index))>>
    /\ forder' = <<>>
    /\ UNCHANGED <<exceptFilter, fout>>

\* A piece of two or more stories is split in the middle.
SplitPiece(i) ==
    /\ i \in 1..Len(fjobs)
    /\ ~fjobs[i].done
    /\ fjobs[i].hi > fjobs[i].lo
    /\ LET lo == fjobs[i].lo
           hi == fjobs[i].hi
           mid == lo + ((hi - lo + 1) \div 2)
       IN fjobs' = ReplaceJob(fjobs, i, <<Piece(lo, mid - 1), Piece(mid, hi)>>)
    /\ UNCHANGED <<exceptFilter, fpred, fout, forder>>

\* A worker folds one piece.
FoldJob(i) ==
    /\ i \in 1..Len(fjobs)
    /\ ~fjobs[i].done
    /\ fjobs' = [fjobs EXCEPT ![i].done = TRUE,
                              ![i].list = FoldPiece(index, fpred,
                                                    fjobs[i].lo, fjobs[i].hi)]
    /\ forder' = Append(forder, fjobs[i].lo)
    /\ UNCHANGED <<exceptFilter, fpred, fout>>

\* The results of two neighbouring pieces are reduced.
ReduceJobs(i) ==
    /\ i \in 1..(Len(fjobs) - 1)
    /\ fjobs[i].done
    /\ fjobs[i + 1].done
    /\ fjobs' = ReplaceJob(SubSeq(fjobs, 1, i) \o SubSeq(fjobs, i + 2, Len(fjobs)),
                           i,
                           <<[lo |-> fjobs[i].lo, hi |-> fjobs[i + 1].hi,
                              done |-> TRUE,
                              list |-> collect_reduce(fjobs[i].list,
                                                      fjobs[i + 1].list)]>>)
    /\ UNCHANGED <<exceptFilter, fpred, fout, forder>>

\* collect returns the one result that is left.
FilterReturn ==
    /\ Len(fjobs) = 1
    /\ fjobs[1].done
    /\ fout' = [done |-> TRUE, list |-> fjobs[1].list]
    /\ fjobs' = NoJobs
    /\ UNCHANGED <<exceptFilter, fpred, forder>>

NextFilter ==
    \/ \E p \in SUBSET {index[i].id : i \in 1..Len(index)} : FilterCall(p)
    \/ \E i \in 1..MaxStories : SplitPiece(i)
    \/ \E i \in 1..MaxStories : FoldJob(i)
    \/ \E i \in 1..MaxStories : ReduceJobs(i)
    \/ FilterReturn

\* ------------------------------------------------------------ query parser
\* A query text is a sequence of lexemes: each of the characters the grammar
\* singles out is a lexeme of its own and every run of other characters is
\* one lexeme.
Space == " "
Backslash == "\\"
Quote == "\""
Delimiters == {")", ",", "|", Backslash}

\* A point in time: the day and the position within the day.
NoDate == [some |-> FALSE, day |-> 0, sec |-> 0]
At(day, sec) == [some |-> TRUE, day |-> day, sec |-> sec]
Midnight(day) == At(day, 0)
DateOf(dt) == dt.day
Earlier(a, b) == a.day < b.day \/ (a.day = b.day /\ a.sec < b.sec)

\* The fields of a story that the modelled queries read; every other field
\* of a story is 0, empty or absent.
QStory(id, chapters, likes, name, aid, published) ==
    [id |-> id, num_chapters |-> chapters, num_likes |-> likes,
     title |-> <<"Story">>, author_name |-> name, author_id |-> aid,
     date_published |-> published]

IntField(s, acc) ==
    CASE acc = "id" -> s.id
      [] acc = "num_chapters" -> s.num_chapters
      [] acc = "num_likes" -> s.num_likes
      [] acc = "author.id" -> s.author_id
      [] OTHER -> 0
StrField(s, acc) ==
    CASE acc = "title" -> s.title
      [] acc = "author.name" -> s.author_name
      [] OTHER -> <<>>
DtuField(s, acc) ==
    CASE acc = "date_published" -> s.date_published
      [] OTHER -> NoDate

\* The alternatives of source, in the order alt tries them: the tag, the
\* kind of the accessor and the field it reads.
Src(tag, kind, acc) == [tag |-> tag, kind |-> kind, acc |-> acc]
StoryFields ==
    << Src(<<"id">>, "int", "id"),
       Src(<<"story">>, "str", "title"),
       Src(<<"title">>, "str", "title"),
       Src(<<"description">>, "str", "description_html"),
       Src(<<"short", Space, "description">>, "str", "short_description"),
       Src(<<"url">>, "str", "url"),
       Src(<<"modified">>, "dtu", "date_modified"),
       Src(<<"published">>, "dtu", "date_published"),
       Src(<<"updated">>, "dtu", "date_updated"),
       Src(<<"chapters">>, "int", "num_chapters"),
       Src(<<"comments">>, "int", "num_comments"),
       Src(<<"dislikes">>, "int", "num_dislikes"),
       Src(<<"likes">>, "int", "num_likes"),
       Src(<<"total", Space, "views">>, "int", "total_num_views"),
       Src(<<"views">>, "int", "num_views"),
       Src(<<"words">>, "int", "num_words") >>
AuthorFields ==
    << Src(<<"author">>, "str", "author.name"),
       Src(<<"author", Space, "name">>, "str", "author.name"),
       Src(<<"author", Space, "id">>, "int", "author.id"),
       Src(<<"author", Space, "joined">>, "dtu", "author.date_joined") >>
ArchiveFields ==
    << Src(<<"path">>, "str", "archive.path"),
       Src(<<"archive">>, "str", "archive.path"),
       Src(<<"archive", Space, "path">>, "str", "archive.path"),
       Src(<<"entry", Space, "checked">>, "dtu", "archive.date_checked"),
       Src(<<"entry", Space, "created">>, "dtu", "archive.date_created"),
       Src(<<"entry", Space, "fetched">>, "dtu", "archive.date_fetched"),
       Src(<<"entry", Space, "updated">>, "dtu", "archive.date_updated") >>

\* What a parser returns: Ok with the rest of the input and a value, a
\* recoverable Error, or a Failure that no alternative recovers from.
POk(rest, val) == [st |-> "ok", rest |-> rest, val |-> val]
PError == [st |-> "error", rest |-> <<>>, val |-> 0]
PFailure == [st |-> "failure", rest |-> <<>>, val |-> 0]

IsPrefix(p, s) == Len(p) <= Len(s) /\ SubSeq(s, 1, Len(p)) = p
Drop(s, n) == SubSeq(s, n + 1, Len(s))

\* space0: skips the spaces at the front.
RECURSIVE space0(_)
space0(input) ==
    IF input # <<>> /\ Head(input) = Space THEN space0(Tail(input))
    ELSE input

\* tag(t)
tag(t, input) == IF IsPrefix(t, input) THEN POk(Drop(input, Len(t)), t)
                 ELSE PError

\* alt over a list of tagged accessors: the first tag that matches wins.
RECURSIVE AltFields(_, _, _)
AltFields(fields, k, input) ==
    IF k > Len(fields) THEN PError
    ELSE IF tag(fields[k].tag, input).st = "ok"
         THEN POk(tag(fields[k].tag, input).rest, fields[k])
         ELSE AltFields(fields, k + 1, input)

\* source: preceded(space0, alt((story, author, archive)))
source(input) ==
    AltFields(StoryFields \o AuthorFields \o ArchiveFields, 1, space0(input))

\* operator
OperatorAt(i) ==
    IF i = <<>> THEN PError
    ELSE CASE Head(i) = "=" -> POk(Tail(i), "Exact")
           [] Head(i) = ":" -> POk(Tail(i), "Fuzzy")
           [] Head(i) = "<" -> POk(Tail(i), "LessThan")
           [] Head(i) = ">" -> POk(Tail(i), "MoreThan")
           [] OTHER -> PError
operator(input) == OperatorAt(space0(input))

\* str::replace of the two lexemes <<Backslash, c>> by <<c>>, left to right.
RECURSIVE ReplaceEscape(_, _)
ReplaceEscape(s, c) ==
    IF Len(s) < 2 THEN s
    ELSE IF s[1] = Backslash /\ s[2] = c
         THEN <<c>> \o ReplaceEscape(Drop(s, 2), c)
         ELSE <<s[1]>> \o ReplaceEscape(Tail(s), c)

\* Mutant of unescape: the pair of backslashes is left as it is.
unescape_KeepsBackslashPair(input) ==
    ReplaceEscape(ReplaceEscape(ReplaceEscape(input, ")"), ","), "|")

\* unescape
unescape(input) ==
    ReplaceEscape(ReplaceEscape(ReplaceEscape(ReplaceEscape(input, ")"),
                                              ","), "|"), Backslash)

\* str::trim: the white space at both ends goes, the line feed included.
Newline == "\n"
Whitespace == {Space, Newline}
RECURSIVE TrimStart(_)
TrimStart(s) ==
    IF s # <<>> /\ Head(s) \in Whitespace THEN TrimStart(Tail(s))
    ELSE s
RECURSIVE TrimEnd(_)
TrimEnd(s) ==
    IF s # <<>> /\ s[Len(s)] \in Whitespace
    THEN TrimEnd(SubSeq(s, 1, Len(s) - 1))
    ELSE s
trim(s) == TrimEnd(TrimStart(s))

\* evalue: escaped(none_of("),|\\"), '\\', one_of("),|\\")). n lexemes are
\* consumed so far.
RECURSIVE Escaped(_, _)
Escaped(input, n) ==
    IF n >= Len(input) THEN POk(<<>>, input)
    ELSE IF input[n + 1] \notin Delimiters THEN Escaped(input, n + 1)
    ELSE IF input[n + 1] = Backslash
         THEN IF n + 2 <= Len(input) /\ input[n + 2] \in Delimiters
              THEN Escaped(input, n + 2)
              ELSE PError
         ELSE IF n = 0 THEN PError
              ELSE POk(Drop(input, n), SubSeq(input, 1, n))
evalue(input) == Escaped(input, 0)

\* target: preceded(space0, map(evalue, |value| unescape(value.trim())))
Unescaped(r) ==
    IF r.st = "ok" THEN POk(r.rest, unescape(trim(r.val))) ELSE r
target(input) == Unescaped(evalue(space0(input)))

\* ---------------------------------------------------------- query optimizer
\* A compiled filter: a leaf comparison or a group of filters.
LeafFilter(kind, acc, cmp, ival, sval, dval) ==
    [op |-> "leaf", kind |-> kind, acc |-> acc, cmp |-> cmp, ival |-> ival,
     sval |-> sval, dval |-> dval, kids |-> <<>>]
GroupFilter(op, kids) ==
    [op |-> op, kind |-> "", acc |-> "", cmp |-> "", ival |-> 0,
     sval |-> <<>>, dval |-> NoDate, kids |-> kids]
NoFilter == GroupFilter("none", <<>>)

COk(f) == [ok |-> TRUE, f |-> f]
CErr == [ok |-> FALSE, f |-> NoFilter]

\* str::parse::<i64> on the numbers the modelled queries use.
ParseI64(value) ==
    IF Len(value) # 1 THEN [ok |-> FALSE, n |-> 0]
    ELSE CASE value[1] = "5" -> [ok |-> TRUE, n |-> 5]
           [] value[1] = "10" -> [ok |-> TRUE, n |-> 10]
           [] value[1] = "100" -> [ok |-> TRUE, n |-> 100]
           [] value[1] = "12345" -> [ok |-> TRUE, n |-> 12345]
           [] OTHER -> [ok |-> FALSE, n |-> 0]

\* parse_date_string(value, now, Dialect::Uk) on the dates the modelled
\* queries use: a calendar date is the start of that day, a relative date is
\* counted from now.
parse_date_string(value, t) ==
    IF Len(value) # 1 THEN [ok |-> FALSE, dt |-> NoDate]
    ELSE CASE value[1] = "2015-01-01" -> [ok |-> TRUE, dt |-> Midnight(1)]
           [] value[1] = "2016-01-01" -> [ok |-> TRUE, dt |-> Midnight(3)]
           [] value[1] = "yesterday" ->
                  [ok |-> TRUE, dt |-> At(t.day - 1, t.sec)]
           [] OTHER -> [ok |-> FALSE, dt |-> NoDate]

\* Mutant of strfn: the operation is not checked.
strfn_AnyOperation(src, op, value) ==
    COk(LeafFilter("str", src.acc, op, 0, value, NoDate))

strfn(src, op, value) ==
    IF op \in {"Exact", "Fuzzy"}
    THEN COk(LeafFilter("str", src.acc, op, 0, value, NoDate))
    ELSE CErr

intfn(src, op, value) ==
    IF ParseI64(value).ok
    THEN COk(LeafFilter("int", src.acc, op, ParseI64(value).n, <<>>, NoDate))
    ELSE CErr

\* dtufn reads the clock: t is Utc::now().
dtufn(src, op, value, t) ==
    IF parse_date_string(value, t).ok
    THEN COk(LeafFilter("dtu", src.acc, op, 0, <<>>,
                        parse_date_string(value, t).dt))
    ELSE CErr

optimize(src, op, value, t) ==
    CASE src.kind = "str" -> strfn(src, op, value)
      [] src.kind = "int" -> intfn(src, op, value)
      [] src.kind = "dtu" -> dtufn(src, op, value, t)

\* Case folding of the case-insensitive regex.
Lower(c) ==
    CASE c = "Fluttershy" -> "fluttershy"
      [] c = "Story" -> "story"
      [] OTHER -> c
LowerAll(s) == [i \in 1..Len(s) |-> Lower(s[i])]
IsMatch(value, text) ==
    \E i \in 0..(Len(text) - Len(value)) :
        SubSeq(LowerAll(text), i + 1, i + Len(value)) = LowerAll(value)

\* Mutant of DtuHolds: an absent timestamp is compared as Option orders it,
\* None before every Some.
DtuHolds_OptionOrder(cmp, dt, value) ==
    CASE cmp = "Exact" -> dt.some /\ dt = value
      [] cmp = "Fuzzy" -> dt.some /\ DateOf(dt) = DateOf(value)
      [] cmp = "LessThan" -> ~dt.some \/ Earlier(dt, value)
      [] cmp = "MoreThan" -> dt.some /\ Earlier(value, dt)

\* The closures of dtufn.
DtuHolds(cmp, dt, value) ==
    CASE cmp = "Exact" -> dt.some /\ dt = value
      [] cmp = "Fuzzy" -> dt.some /\ DateOf(dt) = DateOf(value)
      [] cmp = "LessThan" -> dt.some /\ Earlier(dt, value)
      [] cmp = "MoreThan" -> dt.some /\ Earlier(value, dt)

\* The closures of intfn.
IntHolds(cmp, n, value) ==
    CASE cmp = "Exact" -> n = value
      [] cmp = "Fuzzy" -> n = value
      [] cmp = "LessThan" -> n < value
      [] cmp = "MoreThan" -> n > value

\* The closures of strfn.
StrHolds(cmp, text, value) ==
    CASE cmp = "Exact" -> text = value
      [] cmp = "Fuzzy" -> IsMatch(value, text)

\* A leaf filter called on a story.
LeafHolds(f, s) ==
    CASE f.kind = "str" -> StrHolds(f.cmp, StrField(s, f.acc), f.sval)
      [] f.kind = "int" -> IntHolds(f.cmp, IntField(s, f.acc), f.ival)
      [] f.kind = "dtu" -> DtuHolds(f.cmp, DtuField(s, f.acc), f.dval)

\* ------------------------------------------------- query parser: the grammar
RECURSIVE ofunc(_, _)
RECURSIVE afunc(_, _)
RECURSIVE nlist(_, _)
RECURSIVE parens(_, _)
RECURSIVE alistRest(_, _, _)
RECURSIVE olistRest(_, _, _)

\* item: tuple((source, operator, target)), then optimize; a leaf that does
\* not compile is a Failure.
ItemCompiled(rest, c) == IF c.ok THEN POk(rest, c.f) ELSE PFailure
ItemTarget(src, op, v, t) ==
    IF v.st = "ok" THEN ItemCompiled(v.rest, optimize(src, op, v.val, t))
    ELSE PError
ItemOperator(src, o, t) ==
    IF o.st = "ok" THEN ItemTarget(src, o.val, target(o.rest), t) ELSE PError
ItemSource(s, t) ==
    IF s.st = "ok" THEN ItemOperator(s.val, operator(s.rest), t) ELSE PError
item(input, t) == ItemSource(source(input), t)

\* preceded(space0, char(c))
CharIs(c, i) ==
    IF i # <<>> /\ Head(i) = c THEN POk(Tail(i), c) ELSE PError
spaced_char(c, input) == CharIs(c, space0(input))

\* parens: alt((group, item)), where group is
\* delimited(`(`, preceded(space0, ofunc), `)`). A Failure inside the group
\* is passed on; an Error makes alt try item.
GroupClose(close, val, other) ==
    IF close.st = "ok" THEN POk(close.rest, val) ELSE other
GroupInner(inner, other) ==
    CASE inner.st = "failure" -> PFailure
      [] inner.st = "ok" ->
             GroupClose(spaced_char(")", inner.rest), inner.val, other)
      [] OTHER -> other
GroupOpen(open, other, t) ==
    IF open.st = "ok" THEN GroupInner(ofunc(space0(open.rest), t), other)
    ELSE other
parens(input, t) == GroupOpen(spaced_char("(", input), item(input, t), t)

\* negate
Negated(r) ==
    IF r.st = "ok" THEN POk(r.rest, GroupFilter("not", <<r.val>>)) ELSE r
negate(input, t) == Negated(parens(input, t))

\* nlist: preceded(space0, alt((preceded(char('!'), negate), parens)))
NlistAlt(negated, other) == IF negated.st = "error" THEN other ELSE negated
NlistBang(i, other, t) ==
    IF i # <<>> /\ Head(i) = "!" THEN NlistAlt(negate(Tail(i), t), other)
    ELSE other
NlistSpaced(i, t) == NlistBang(i, parens(i, t), t)
nlist(input, t) == NlistSpaced(space0(input), t)

\* alist: separated_list1(preceded(space0, char(',')), nlist). The list ends
\* before a separator that is missing or not followed by an element; a
\* Failure of an element is passed on.
AlistNext(next, input, acc, t) ==
    CASE next.st = "ok" -> alistRest(next.rest, Append(acc, next.val), t)
      [] next.st = "failure" -> PFailure
      [] OTHER -> POk(input, acc)
AlistSep(sep, input, acc, t) ==
    IF sep.st = "ok" THEN AlistNext(nlist(sep.rest, t), input, acc, t)
    ELSE POk(input, acc)
alistRest(input, acc, t) == AlistSep(spaced_char(",", input), input, acc, t)
AlistFirst(first, t) ==
    IF first.st = "ok" THEN alistRest(first.rest, <<first.val>>, t)
    ELSE first
alist(input, t) == AlistFirst(nlist(input, t), t)

\* afunc and ofunc: one filter is returned as it is, more become a group.
Grouped(op, r) ==
    IF r.st # "ok" THEN r
    ELSE IF Len(r.val) = 1 THEN POk(r.rest, r.val[1])
    ELSE POk(r.rest, GroupFilter(op, r.val))
afunc(input, t) == Grouped("and", alist(input, t))

\* olist: separated_list1(preceded(space0, char('|')), afunc)
OlistNext(next, input, acc, t) ==
    CASE next.st = "ok" -> olistRest(next.rest, Append(acc, next.val), t)
      [] next.st = "failure" -> PFailure
      [] OTHER -> POk(input, acc)
OlistSep(sep, input, acc, t) ==
    IF sep.st = "ok" THEN OlistNext(afunc(sep.rest, t), input, acc, t)
    ELSE POk(input, acc)
olistRest(input, acc, t) == OlistSep(spaced_char("|", input), input, acc, t)
OlistFirst(first, t) ==
    IF first.st = "ok" THEN olistRest(first.rest, <<first.val>>, t)
    ELSE first
olist(input, t) == OlistFirst(afunc(input, t), t)

ofunc(input, t) == Grouped("or", olist(input, t))

\* complete: terminated(ofunc, eof)(input.trim())
AtEof(r) == IF r.st = "ok" /\ r.rest # <<>> THEN PError ELSE r
complete(input, t) == AtEof(ofunc(trim(input), t))

\* parse: the filter, or a QueryError.
QueryResult(r) == IF r.st = "ok" THEN COk(r.val) ELSE CErr
parse(query, t) == QueryResult(complete(query, t))

\* ------------------------------------------------- calling a compiled filter
\* A call of a filter returns its value and the log of the calls its groups
\* made: the group (its path from the root), the child and what it returned.
Called(g, k, v) == [g |-> g, k |-> k, v |-> v]
Returned(v, log) == [v |-> v, log |-> log]

RECURSIVE Eval(_, _, _)
RECURSIVE afunc_closure(_, _, _, _)
RECURSIVE ofunc_closure(_, _, _, _)
RECURSIVE afunc_closure_CallsAll(_, _, _, _)

\* Mutant of afunc_closure: every child is called, the values are combined
\* afterwards.
afunc_closure_CallsAll(kids, k, path, s) ==
    IF k > Len(kids) THEN Returned(TRUE, <<>>)
    ELSE LET r == Eval(kids[k], Append(path, k), s)
             rest == afunc_closure_CallsAll(kids, k + 1, path, s)
         IN Returned(r.v /\ rest.v,
                     r.log \o <<Called(path, k, r.v)>> \o rest.log)

\* The closure of afunc from its k-th filter on:
\* for filter in filters.iter() { if !filter(story) { return false; } } true
afunc_closure(kids, k, path, s) ==
    IF k > Len(kids) THEN Returned(TRUE, <<>>)
    ELSE LET r == Eval(kids[k], Append(path, k), s)
             rest == afunc_closure(kids, k + 1, path, s)
         IN IF ~r.v
            THEN Returned(FALSE, r.log \o <<Called(path, k, r.v)>>)
            ELSE Returned(rest.v,
                          r.log \o <<Called(path, k, r.v)>> \o rest.log)

\* The closure of ofunc from its k-th filter on:
\* for filter in filters.iter() { if filter(story) { return true; } } false
ofunc_closure(kids, k, path, s) ==
    IF k > Len(kids) THEN Returned(FALSE, <<>>)
    ELSE LET r == Eval(kids[k], Append(path, k), s)
             rest == ofunc_closure(kids, k + 1, path, s)
         IN IF r.v
            THEN Returned(TRUE, r.log \o <<Called(path, k, r.v)>>)
            ELSE Returned(rest.v,
                          r.log \o <<Called(path, k, r.v)>> \o rest.log)

\* filter(story)
Eval(f, path, s) ==
    CASE f.op = "leaf" -> Returned(LeafHolds(f, s), <<>>)
      [] f.op = "not" ->
             LET r == Eval(f.kids[1], Append(path, 1), s)
             IN Returned(~r.v, r.log \o <<Called(path, 1, r.v)>>)
      [] f.op = "and" -> afunc_closure(f.kids, 1, path, s)
      [] f.op = "or" -> ofunc_closure(f.kids, 1, path, s)

\* ------------------------------------------------------- running a query
\* The clock: Utc::now() moves on between any two steps.
Tick ==
    /\ now.day < MaxDay
    /\ now' = IF now.sec = 0 THEN At(now.day, 1) ELSE At(now.day + 1, 0)
    /\ UNCHANGED <<exceptQuery, qtext, qstories, qrun>>

Runs == {1, 2}
NewRun == [pc |-> "start", f |-> NoFilter, i |-> 0, out |-> <<>>,
           log |-> <<>>]
\* The run after parse returned.
Parsed(c) == [pc |-> IF c.ok THEN "filter" ELSE "rejected", f |-> c.f,
              i |-> 0, out |-> <<>>, log |-> <<>>]
Finished(r) == qrun[r].pc \in {"done", "rejected"}

InitQuery(texts, tables) ==
    /\ now = Midnight(MaxDay - 1)
    /\ qtext \in texts
    /\ qstories \in tables
    /\ qrun = [r \in Runs |-> NewRun]

\* parse(&input): the run that follows an earlier one starts when that one
\* is over.
QueryParse(r) ==
    /\ qrun[r].pc = "start"
    /\ \A q \in Runs : q < r => Finished(q)
    /\ qrun' = [qrun EXCEPT ![r] = Parsed(parse(qtext, now))]
    /\ UNCHANGED <<exceptQuery, now, qtext, qstories>>

\* The run after the filter returned e for the story with the given id.
Filtered(run, id, e) ==
    [run EXCEPT !.i = @ + 1, !.log = e.log,
                !.out = IF e.v THEN Append(@, id) ELSE @]

\* fetcher.filter(&filter): the filter is called on the next story.
FilterStory(r) ==
    /\ qrun[r].pc = "filter"
    /\ qrun[r].i < Len(qstories)
    /\ qrun' = [qrun EXCEPT ![r] =
                    Filtered(qrun[r], qstories[qrun[r].i + 1].id,
                             Eval(qrun[r].f, <<>>, qstories[qrun[r].i + 1]))]
    /\ UNCHANGED <<exceptQuery, now, qtext, qstories>>

\* filter returns the stories it collected.
FilterDone(r) ==
    /\ qrun[r].pc = "filter"
    /\ qrun[r].i = Len(qstories)
    /\ qrun' = [qrun EXCEPT ![r].pc = "done"]
    /\ UNCHANGED <<exceptQuery, now, qtext, qstories>>

NextQuery ==
    \/ Tick
    \/ \E r \in Runs : QueryParse(r)
    \/ \E r \in Runs : FilterStory(r)
    \/ \E r \in Runs : FilterDone(r)

\* --------------------------------------------------- query texts and tables
LeafText(field, op, value) == field \o <<Space, op, Space>> \o value

ChaptersLeaf == LeafText(<<"chapters">>, ">", <<"10">>)
LikesLeaf == LeafText(<<"likes">>, ">", <<"100">>)
AuthorLeaf == LeafText(<<"author">>, "=", <<"Fluttershy">>)
QuotedAuthorLeaf ==
    LeafText(<<"author">>, "=", <<Quote, "Fluttershy", Quote>>)
AuthorIdLeaf == LeafText(<<"author", Space, "id">>, "=", <<"12345">>)

\* Leaves whose field name begins with a shorter field name.
LongNameLeaves ==
    { AuthorIdLeaf,
      LeafText(<<"author", Space, "name">>, "=", <<"Fluttershy">>),
      LeafText(<<"author", Space, "joined">>, "<", <<"2015-01-01">>),
      LeafText(<<"archive", Space, "path">>, ":", <<"Story">>),
      LeafText(<<"short", Space, "description">>, ":", <<"Story">>),
      LeafText(<<"total", Space, "views">>, "<", <<"5">>) }

GoodLeaves ==
    { ChaptersLeaf, LikesLeaf, AuthorLeaf, QuotedAuthorLeaf,
      LeafText(<<"title">>, ":", <<"story">>),
      LeafText(<<"id">>, "<", <<"5">>) }

Operators == {"=", ":", "<", ">"}
DateValues == {<<"2015-01-01">>, <<"2016-01-01">>, <<"yesterday">>}
DateFields == {<<"published">>, <<"modified">>, <<"entry", Space, "updated">>}
\* A comparison of an optional timestamp, for every operator.
DateLeaves ==
    {LeafText(field, op, v) :
        field \in DateFields, op \in Operators, v \in DateValues}

\* Leaves that parse and do not compile.
BadLeaves ==
    { LeafText(<<"title">>, "<", <<"Story">>),
      LeafText(<<"author">>, ">", <<"Fluttershy">>),
      LeafText(<<"likes">>, "=", <<"many">>),
      LeafText(<<"chapters">>, ">", <<"10", Space, "5">>),
      LeafText(<<"published">>, "<", <<"someday">>) }

\* A leaf alone, in parentheses, negated, and in the lists.
Contexts(l, g) ==
    { l,
      <<"(">> \o l \o <<")">>,
      <<"!">> \o l,
      <<"!", "(", Space>> \o l \o <<Space, ")">>,
      g \o <<",", Space>> \o l,
      l \o <<",", Space>> \o g,
      g \o <<Space, "|", Space>> \o l,
      l \o <<Space, "|", Space>> \o g,
      g \o <<",", Space, "(">> \o g \o <<Space, "|", Space>> \o l \o <<")">> }

\* chapters > 10, likes > 100 | author = "Fluttershy"
FixtureQuery ==
    ChaptersLeaf \o <<",", Space>> \o LikesLeaf \o <<Space, "|", Space>>
        \o QuotedAuthorLeaf

\* published > 2015-01-01, published < 2016-01-01
RangeQuery ==
    LeafText(<<"published">>, ">", <<"2015-01-01">>) \o <<",", Space>>
        \o LeafText(<<"published">>, "<", <<"2016-01-01">>)

\* Groups of three and nested groups.
GroupQueries ==
    { ChaptersLeaf \o <<",", Space>> \o LikesLeaf \o <<",", Space>>
          \o AuthorLeaf,
      AuthorLeaf \o <<Space, "|", Space>> \o ChaptersLeaf
          \o <<Space, "|", Space>> \o LikesLeaf,
      <<"(">> \o AuthorLeaf \o <<Space, "|", Space>> \o ChaptersLeaf
          \o <<")", ",", Space>> \o LikesLeaf \o <<",", Space, "!">>
          \o AuthorLeaf,
      AuthorLeaf \o <<",", Space>> \o LikesLeaf \o <<Space, "|", Space>>
          \o ChaptersLeaf \o <<",", Space>> \o LikesLeaf
          \o <<Space, "|", Space>> \o LikesLeaf }

QueryTexts ==
    UNION {Contexts(l, ChaptersLeaf) : l \in GoodLeaves \cup BadLeaves}
        \cup LongNameLeaves \cup DateLeaves
        \cup {FixtureQuery, RangeQuery} \cup GroupQueries

\* The fixture of three stories, a fourth story on the edges of the
\* comparisons, and the tables made of them.
Story1 == QStory(1, 20, 500, <<"Rarity">>, 7, At(2, 1))
Story2 == QStory(2, 5, 5000, <<"Fluttershy">>, 12345, NoDate)
Story3 == QStory(3, 20, 10, <<"Rarity">>, 7, At(4, 0))
Story4 == QStory(4, 10, 100, <<"Fluttershy">>, 5, At(1, 0))
Fixture == <<Story1, Story2, Story3>>
QueryTables == {<<>>, Fixture, <<Story2, Story4>>}

\* ------------------------------------------------- the interactive shells
\* Most lines left on stdin when the shell starts.
MaxInput == 2

\* Stories printed at most: if count > 32 { continue; }
ListLimit == 32

\* The length of a text in bytes: its lexemes are ASCII.
RECURSIVE ByteLen(_)
ByteLen(s) == IF s = <<>> THEN 0 ELSE Len(Head(s)) + ByteLen(Tail(s))

NoMessage == [kind |-> "none"]
\* translate_incomplete: "Incomplete input at {}", query.len() - input.len()
translate_incomplete(query, input) ==
    [kind |-> "incomplete", at |-> ByteLen(query) - ByteLen(input),
     rest |-> input]
\* translate_error: "Invalid {} at {}"; the input a nom error points at is
\* not part of the parser results here, so the number is left out.
translate_error == [kind |-> "invalid"]

\* parse of src/query/parser.rs: ofunc runs on query.trim(), the messages
\* count from query.
ShellOk(f) == [ok |-> TRUE, f |-> f, msg |-> NoMessage]
ShellErr(msg) == [ok |-> FALSE, f |-> NoFilter, msg |-> msg]
ParseOutcome(query, r) ==
    IF r.st = "ok"
    THEN IF r.rest = <<>> THEN ShellOk(r.val)
         ELSE ShellErr(translate_incomplete(query, r.rest))
    ELSE ShellErr(translate_error)
shell_parse(query, t) == ParseOutcome(query, ofunc(trim(query), t))

\* The lines typed: good queries, a query with a stray parenthesis, one that
\* does not compile, an empty line, and a last line without its line feed.
TypedLines ==
    { ChaptersLeaf \o <<Newline>>,
      <<Space>> \o AuthorLeaf \o <<Space, Newline>>,
      LikesLeaf \o <<")", Newline>>,
      LikesLeaf \o <<Space, ")", Space, "|">>,
      LeafText(<<"likes">>, "=", <<"many">>) \o <<Newline>>,
      <<"(">> \o ChaptersLeaf \o <<Newline>>,
      <<Newline>>,
      FixtureQuery }
ShellInputs == UNION {[1..n -> TypedLines] : n \in 0..MaxInput}

\* What parse returns for every buffer the shell can hand it. None of the
\* typed lines names a date, so the clock parse reads plays no part.
Buffers == TypedLines \cup {<<>>}
ShellParses == [b \in Buffers |-> shell_parse(b, Midnight(MaxDay - 1))]

InitShell(shells, inputs) ==
    /\ shell \in shells
    /\ sin \in inputs
    /\ spc = "input"
    /\ sbuf = <<>>
    /\ sfilter = NoFilter
    /\ sout = NoMessage

\* input(): the prompt, then stdin().read_line(&mut buffer).unwrap(). At end
\* of file read_line returns Ok(0) and the buffer stays empty.
ShellInput ==
    /\ shell = "fimfareader"
    /\ spc = "input"
    /\ IF sin = <<>>
       THEN /\ sbuf' = <<>>
            /\ sin' = sin
       ELSE /\ sbuf' = Head(sin)
            /\ sin' = Tail(sin)
    /\ spc' = "parse"
    /\ UNCHANGED <<exceptShell, shell, sfilter, sout>>

\* match parse(&input()): Err prints the error and continues the loop.
Dispatched(c) ==
    /\ spc' = IF c.ok THEN "filter" ELSE "input"
    /\ sfilter' = c.f
    /\ sout' = IF c.ok THEN sout ELSE c.msg
ShellParse ==
    /\ shell = "fimfareader"
    /\ spc = "parse"
    /\ Dispatched(ShellParses[sbuf])
    /\ UNCHANGED <<exceptShell, shell, sin, sbuf>>

\* fetcher.filter(&filter), "Found {} stories", the list when it is short;
\* the loop goes on.
Found(table, f) == {i \in 1..Len(table) : Eval(f, <<>>, table[i]).v}
Report(count) ==
    [kind |-> "found", count |-> count, listed |-> ~(count > ListLimit)]
ShellFilter ==
    /\ shell = "fimfareader"
    /\ spc = "filter"
    /\ sout' = Report(Cardinality(Found(Fixture, sfilter)))
    /\ spc' = "input"
    /\ UNCHANGED <<exceptShell, shell, sin, sbuf, sfilter>>

\* cli: while let Ok(line) = editor.readline(">>> "): the line comes without
\* its line feed; at end of file readline returns Err, the loop ends and main
\* returns.
CliReadline ==
    /\ shell = "cli"
    /\ spc = "input"
    /\ IF sin = <<>>
       THEN /\ sbuf' = sbuf
            /\ sin' = sin
            /\ spc' = "exited"
       ELSE /\ sbuf' = TrimEnd(Head(sin))
            /\ sin' = Tail(sin)
            /\ spc' = "parse"
    /\ UNCHANGED <<exceptShell, shell, sfilter, sout>>

\* cli: parser.parse_query(&line).unwrap(), searcher.search(..).unwrap(), the
\* hits are printed. Whether tantivy accepts the line is its own matter: the
\* unwrap panics when it does not.
CliSearch(accepted) ==
    /\ shell = "cli"
    /\ spc = "parse"
    /\ spc' = IF accepted THEN "input" ELSE "panicked"
    /\ sout' = IF accepted THEN [kind |-> "hits"] ELSE sout
    /\ UNCHANGED <<exceptShell, shell, sin, sbuf, sfilter>>

NextShell ==
    \/ ShellInput
    \/ ShellParse
    \/ ShellFilter
    \/ CliReadline
    \/ \E accepted \in BOOLEAN : CliSearch(accepted)

\* ------------------------------------------------ deserialize, from_str
\* The fields the structs declare, and those of them that may be absent
\* (Option<T>).
StoryDeclared ==
    { "archive", "author", "chapters", "color", "completion_status",
      "content_rating", "cover_image", "date_modified", "date_published",
      "date_updated", "description_html", "id", "num_chapters",
      "num_comments", "num_dislikes", "num_likes", "num_views", "num_words",
      "prequel", "published", "rating", "short_description", "status",
      "submitted", "tags", "title", "total_num_views", "url" }
StoryOptional ==
    { "color", "cover_image", "date_modified", "date_published",
      "date_updated", "prequel" }
ArchiveDeclared ==
    {"date_checked", "date_created", "date_fetched", "date_updated", "path"}
ArchiveOptional ==
    {"date_checked", "date_created", "date_fetched", "date_updated"}
AuthorDeclared ==
    { "avatar", "bio_html", "date_joined", "id", "name", "num_blog_posts",
      "num_followers", "num_stories", "url" }
AuthorOptional ==
    { "avatar", "bio_html", "date_joined", "num_blog_posts", "num_followers",
      "num_stories" }

\* An index line: the key before the colon, and of the JSON object after it
\* the keys it has, the keys of its archive and author objects, and its id.
\* The values are of the types the fields ask for.
IndexLine(skey, keys, archive, author, id) ==
    [skey |-> skey, keys |-> keys, archive |-> archive, author |-> author,
     id |-> id]
NoLine == IndexLine(0, {}, {}, {}, 0)
NoDecode == [called |-> FALSE, ok |-> FALSE, err |-> ""]
DecodeOk == [called |-> TRUE, ok |-> TRUE, err |-> ""]
DecodeErr(e) == [called |-> TRUE, ok |-> FALSE, err |-> e]

\* The visit_map that #[derive(Deserialize)] writes for a struct: a key that
\* is not declared is read and dropped, a declared field that is absent is an
\* error unless it is an Option.
visit_map(keys, declared, optional) == (declared \ optional) \subseteq keys

\* from_str::<Story>(json)
from_str(l) ==
    /\ visit_map(l.keys, StoryDeclared, StoryOptional)
    /\ visit_map(l.archive, ArchiveDeclared, ArchiveOptional)
    /\ visit_map(l.author, AuthorDeclared, AuthorOptional)

\* deserialize(line)
deserialize(l) ==
    IF ~from_str(l) THEN DecodeErr("json")
    ELSE IF l.skey # l.id THEN DecodeErr("Line key mismatch")
    ELSE DecodeOk

InitDecode(inputs) ==
    /\ jline \in inputs
    /\ jres = NoDecode

Deserialize ==
    /\ ~jres.called
    /\ jline # NoLine
    /\ jres' = deserialize(jline)
    /\ UNCHANGED <<exceptDecode, jline>>

NextDecode == Deserialize

\* Lines with all the declared keys, some left out and some undeclared ones
\* added, at the top and in the nested objects.
KeySets(declared, dropped, added) ==
    {(declared \ d) \cup a : d \in SUBSET dropped, a \in SUBSET added}
IndexLines ==
    { IndexLine(skey, keys, archive, author, 1) :
          skey \in {1, 2},
          keys \in KeySets(StoryDeclared, {"title", "prequel"},
                           {"extra", "score"}),
          archive \in KeySets(ArchiveDeclared, {"path"}, {"extra"}),
          author \in KeySets(AuthorDeclared, {"name", "bio_html"},
                             {"extra"}) }

\* ------------------------------------------------- values with escapes
\* A value as a user writes it in a query: every delimiter gets a backslash
\* in front.
RECURSIVE Written(_)
Written(v) ==
    IF v = <<>> THEN <<>>
    ELSE (IF Head(v) \in Delimiters THEN <<Backslash, Head(v)>>
          ELSE <<Head(v)>>) \o Written(Tail(v))

NoExtract == [called |-> FALSE, r |-> PError]
Extracted(r) == [called |-> TRUE, r |-> r]

InitEscape(values) ==
    /\ ev \in values
    /\ eres = NoExtract

\* target on the written value.
ExtractValue ==
    /\ ~eres.called
    /\ eres' = Extracted(target(Written(ev)))
    /\ UNCHANGED <<exceptEscape, ev>>

NextEscape == ExtractValue

\* Values of up to MaxValue characters: the delimiters, white space, a letter.
Values ==
    SeqsUpTo(Delimiters \cup {Space, Newline, "a"}, MaxValue)

\* ------------------------------------------------------ StoryView::filter
NoPredicate == {0}
Rows == 1..Len(visible)

\* StoryView::new: one row per story, in table order, column 1 true, and the
\* cached flag true.
InitView(sizes) ==
    /\ \E n \in sizes : visible = [i \in 1..n |-> TRUE]
    /\ column1 = visible
    /\ bitmap = <<>>
    /\ vi = 0
    /\ vwrites = {}
    /\ vprev = visible
    /\ vpred = NoPredicate

\* filter(f) is called: bitmap = fetcher.par_iter().map(&filter).collect(),
\* in table order; the loop over the rows starts.
ViewFilter(p) ==
    /\ vi = 0
    /\ bitmap' = [i \in Rows |-> i \in p]
    /\ vi' = 1
    /\ vwrites' = {}
    /\ vprev' = visible
    /\ vpred' = p
    /\ UNCHANGED <<exceptView, visible, column1>>

\* One turn of the loop: if new != old { store.set_value(row, 1, &new) }
ViewRow ==
    /\ vi \in Rows
    /\ IF bitmap[vi] # visible[vi]
       THEN /\ column1' = [column1 EXCEPT ![vi] = bitmap[vi]]
            /\ vwrites' = vwrites \cup {vi}
       ELSE /\ column1' = column1
            /\ vwrites' = vwrites
    /\ vi' = vi + 1
    /\ UNCHANGED <<exceptView, visible, bitmap, vprev, vpred>>

\* Mutant of ViewAssign: the cached flags are not replaced.
ViewAssign_KeepsVisible ==
    /\ vi = Len(visible) + 1
    /\ vi' = 0
    /\ UNCHANGED <<exceptView, visible, column1, bitmap, vwrites, vprev, vpred>>

\* self.visible = bitmap; filter returns.
ViewAssign ==
    /\ vi = Len(visible) + 1
    /\ visible' = bitmap
    /\ vi' = 0
    /\ UNCHANGED <<exceptView, column1, bitmap, vwrites, vprev, vpred>>

NextView ==
    \/ \E p \in SUBSET (1..MaxRows) : ViewFilter(p)
    \/ ViewRow
    \/ ViewAssign

\* --------------------------------------- Fetcher::read, Fetcher::identity
\* The entries of the container, and the paths stories name: the payload of
\* one story is missing.
Entries == {"index.json", "epub/1"}
StoryPaths == {"epub/1", "epub/2"}

IdleReader == [pc |-> "idle", op |-> "", path |-> "", ret |-> ""]

InitReaders ==
    /\ mutex = 0
    /\ rth = [t \in Threads |-> IdleReader]
    /\ zpos = "index.json"

\* Mutant of Unlocked: the lock is taken whoever holds it.
Unlocked_Always(m) == TRUE

\* Mutex::lock returns when no thread holds the guard.
Unlocked(m) == m = 0

\* read(story) is called: the path is taken from the story.
CallRead(t, path) ==
    /\ rth[t].pc = "idle"
    /\ rth' = [rth EXCEPT ![t] = [pc |-> "lock", op |-> "read",
                                  path |-> path, ret |-> ""]]
    /\ UNCHANGED <<exceptReaders, mutex, zpos>>

\* identity() is called.
CallIdentity(t) ==
    /\ rth[t].pc = "idle"
    /\ rth' = [rth EXCEPT ![t] = [pc |-> "lock", op |-> "identity",
                                  path |-> "index.json", ret |-> ""]]
    /\ UNCHANGED <<exceptReaders, mutex, zpos>>

\* self.archive.lock()
Lock(t) ==
    /\ rth[t].pc = "lock"
    /\ Unlocked(mutex)
    /\ mutex' = t
    /\ rth' = [rth EXCEPT ![t].pc = "by_name"]
    /\ UNCHANGED <<exceptReaders, zpos>>

\* Mutant of Return: the guard is dropped on Ok only.
Return_KeepsLockOnError(t, ret) ==
    /\ mutex' = IF ret = "ok" THEN 0 ELSE mutex
    /\ rth' = [rth EXCEPT ![t].pc = "idle", ![t].ret = ret]
    /\ UNCHANGED <<exceptReaders, zpos>>

\* The function returns and its guard is dropped.
Return(t, ret) ==
    /\ mutex' = 0
    /\ rth' = [rth EXCEPT ![t].pc = "idle", ![t].ret = ret]
    /\ UNCHANGED <<exceptReaders, zpos>>

\* archive.by_name(path) finds the entry and moves the reader to it.
OpenEntry(t) ==
    /\ rth[t].pc = "by_name"
    /\ rth[t].path \in Entries
    /\ rth' = [rth EXCEPT ![t].pc = "opened"]
    /\ zpos' = rth[t].path
    /\ UNCHANGED <<exceptReaders, mutex>>

\* archive.by_name(path) fails: the entry is missing or cannot be opened.
OpenFails(t) ==
    /\ rth[t].pc = "by_name"
    /\ Return(t, IF rth[t].op = "identity"
                 THEN "Could not open archive index"
                 ELSE IF rth[t].path \notin Entries
                      THEN "Missing story data"
                      ELSE "Could not open story data")

\* read: file.read_to_end(&mut buf) and Ok(buf);
\* identity: Ok(format!("{}", index.crc32())).
FinishEntry(t) ==
    /\ rth[t].pc = "opened"
    /\ Return(t, "ok")

\* read: file.read_to_end(&mut buf) fails.
ReadFails(t) ==
    /\ rth[t].pc = "opened"
    /\ rth[t].op = "read"
    /\ Return(t, "Could not read story data")

NextReaders ==
    \/ \E t \in Threads, path \in StoryPaths : CallRead(t, path)
    \/ \E t \in Threads : CallIdentity(t)
    \/ \E t \in Threads : Lock(t)
    \/ \E t \in Threads : OpenEntry(t)
    \/ \E t \in Threads : OpenFails(t)
    \/ \E t \in Threads : FinishEntry(t)
    \/ \E t \in Threads : ReadFails(t)

\* -------------------------------------------- Searcher::search, ::parse
\* TopDocs::with_limit(32)
TopDocsLimit == 32
\* *score > 10f32
ScoreThreshold == 10

\* The documents of the index that match the text, best score first: the
\* story id of the document and its score.
Hit(sid, score) == [sid |-> sid, score |-> score]
ScorePatterns == {"above", "ten", "below"}
ScoreAt(pattern, n, i) ==
    CASE pattern = "above" -> ScoreThreshold + 2
      [] pattern = "ten" ->
             IF i <= n \div 2 THEN ScoreThreshold + 1 ELSE ScoreThreshold
      [] pattern = "below" ->
             IF i <= 1 THEN ScoreThreshold ELSE ScoreThreshold - 1
\* Story ids in no particular order.
SidAt(i) == (i * 7) % (MaxHits + 3)
Matches(pattern, n) ==
    [i \in 1..n |-> Hit(SidAt(i), ScoreAt(pattern, n, i))]

NoApply == [called |-> FALSE, id |-> 0, val |-> FALSE]

InitSearch(counts) ==
    /\ hits \in {Matches(p, n) : p \in ScorePatterns, n \in counts}
    /\ searches = 0
    /\ built = FALSE
    /\ sids = <<>>
    /\ applied = NoApply

\* search(text): the best TopDocsLimit documents, as (sid, score).
search(matches) ==
    SubSeq(matches, 1,
           IF Len(matches) < TopDocsLimit THEN Len(matches)
           ELSE TopDocsLimit)

\* Mutant of AboveThreshold: a score equal to the threshold passes.
AboveThreshold_OrEqual(score) == score >= ScoreThreshold

\* .filter(|(_, score)| *score > 10f32)
AboveThreshold(score) == score > ScoreThreshold

\* .filter(..).map(|(sid, _)| sid).collect()
RECURSIVE KeepSids(_)
KeepSids(docs) ==
    IF docs = <<>> THEN <<>>
    ELSE (IF AboveThreshold(Head(docs).score) THEN <<Head(docs).sid>>
          ELSE <<>>) \o KeepSids(Tail(docs))

\* sids.sort()
RECURSIVE InsertSid(_, _)
InsertSid(sorted, x) ==
    IF sorted = <<>> THEN <<x>>
    ELSE IF x < Head(sorted) THEN <<x>> \o sorted
    ELSE <<Head(sorted)>> \o InsertSid(Tail(sorted), x)
RECURSIVE sort(_)
sort(v) == IF v = <<>> THEN <<>> ELSE InsertSid(sort(Tail(v)), Head(v))

\* sids.binary_search(&story.id) on the half-open range left..right of
\* 0-based positions.
RECURSIVE binary_search(_, _, _, _)
binary_search(v, key, left, right) ==
    IF left < right
    THEN LET mid == left + ((right - left) \div 2)
         IN IF v[mid + 1] < key
            THEN binary_search(v, key, mid + 1, right)
            ELSE IF v[mid + 1] > key
                 THEN binary_search(v, key, left, mid)
                 ELSE TRUE
    ELSE FALSE

\* Searcher::parse(text): the search runs and the closure takes the sorted
\* ids.
SearcherParse ==
    /\ ~built
    /\ searches' = searches + 1
    /\ sids' = sort(KeepSids(search(hits)))
    /\ built' = TRUE
    /\ UNCHANGED <<exceptSearch, hits, applied>>

\* The closure is called on a story.
ApplyClosure(id) ==
    /\ built
    /\ applied' = [called |-> TRUE, id |-> id,
                   val |-> binary_search(sids, id, 0, Len(sids))]
    /\ UNCHANGED <<exceptSearch, hits, searches, built, sids>>

NextSearch ==
    \/ SearcherParse
    \/ \E id \in 0..(MaxHits + 3) : ApplyClosure(id)

\* Any sequence of wrapper lines, other one-byte lines and story lines.
ParseInput == SeqsUpTo(OneCharLines \cup PlainLines, MaxLines)

\* Indexes of up to MaxLines lines with undecodable lines among them.
BrokenInput ==
    SeqsUpTo({OneChar("{"), OneChar("}"),
              Body(TRUE, NumKey(1), FALSE, NoStory),
              GoodLine(1, 1, <<>>)}, MaxLines)

\* Streams of up to MaxStream items: wrapper lines, a line that decodes, one
\* that does not, and a failed read.
StreamInput ==
    SeqsUpTo({OneChar("{"), OneChar("}"),
              Body(TRUE, NumKey(1), FALSE, NoStory),
              GoodLine(1, 1, <<>>), Unreadable}, MaxStream)

\* Well-framed indexes: `{`, body lines of every kind, `}`.
FramedInput ==
    {<<OneChar("{")>> \o b \o <<OneChar("}")>> :
        b \in SeqsUpTo(BadLines \cup RichLines, MaxBody)}

\* The tables handed to the index build.
BuildTables == {SortedSeq(1..n) : n \in 0..MaxStories}

\* The operations settled last, not called.
InitLast ==
    /\ InitShell({"fimfareader"}, {<<>>})
    /\ InitDecode({NoLine})
    /\ InitEscape({<<>>})
    /\ InitView({0})

\* Nothing but the operation under study has been called.
InitLater ==
    /\ InitFilter /\ InitQuery({<<>>}, {<<>>}) /\ InitReaders
    /\ InitSearch({0})
    /\ InitLast

InitRest ==
    /\ InitThreads /\ InitFetch({<<>>}) /\ InitIndexBuild({<<>>})
    /\ InitLater

\* Loading any index.
Init == InitParse(ParseInput) /\ InitIntern /\ InitRest
Next == NextParse
Spec == Init /\ [][Next]_vars

\* Loading a well-framed index.
InitFramed == InitParse(FramedInput) /\ InitIntern /\ InitRest
SpecFramed == InitFramed /\ [][Next]_vars

\* Loading from a stream whose reads can fail. The three kinds of thread
\* are scheduled by the operating system and the pool: none of them is held
\* back for ever while it can take a step. The steps of the parser's thread
\* are told by its position: collect returns when every worker is done, the
\* send follows. A panic is not owed to anyone.
ReducerRuns ==
    \/ /\ rpc = "collect"
       /\ \A w \in Workers : wk[w].pc = "done"
       /\ rpc' = "send"
    \/ /\ rpc = "send"
       /\ rpc' = "exit"
InitStream == InitParse(StreamInput) /\ InitIntern /\ InitRest
SpecStream == InitStream /\ [][NextStream]_vars
SpecStreamFair ==
    /\ SpecStream
    /\ WF_vars(Producer)
    /\ WF_rpc(ReducerRuns)
    /\ \A w \in Workers : WF_vars(PoolWorker(w))

\* Loading an index in which lines fail to decode.
InitBroken == InitParse(BrokenInput) /\ InitIntern /\ InitRest
SpecBroken == InitBroken /\ [][Next]_vars

\* Threads interning values.
InitInternOnly ==
    /\ InitParse({<<>>}) /\ InitIntern /\ InitThreads
    /\ InitFetch({<<>>}) /\ InitIndexBuild({<<>>})
    /\ InitLater
SpecIntern == InitInternOnly /\ [][NextIntern]_vars

\* Lookups in a loaded table.
InitFetchOnly ==
    /\ InitParse({<<>>}) /\ InitIntern /\ InitThreads
    /\ InitFetch(LoadedTables)
    /\ payload = <<>> /\ ipc = "start" /\ cacheDir = FALSE /\ itodo = {}
    /\ iw = [w \in Workers |-> 0] /\ ipanic = FALSE /\ idocs = <<>>
    /\ commits = 0 /\ stored = <<>>
    /\ InitLater
SpecFetch == InitFetchOnly /\ [][NextFetch]_vars

\* Building the full-text index of a loaded table.
InitBuildOnly ==
    /\ InitParse({<<>>}) /\ InitIntern /\ InitThreads
    /\ fetched = NoFetch
    /\ InitIndexBuild(BuildTables)
    /\ InitLater
SpecIndex == InitBuildOnly /\ [][NextIndexBuild]_vars

\* Runs of the program, one after another, on one container and one cache.
SpecRuns == InitBuildOnly /\ [][NextRuns]_vars

\* Filtering a loaded table.
InitFilterOnly ==
    /\ InitParse({<<>>}) /\ InitIntern /\ InitThreads
    /\ InitFetch(BuildTables)
    /\ payload = <<>> /\ ipc = "start" /\ cacheDir = FALSE /\ itodo = {}
    /\ iw = [w \in Workers |-> 0] /\ ipanic = FALSE /\ idocs = <<>>
    /\ commits = 0 /\ stored = <<>>
    /\ InitFilter
    /\ InitQuery({<<>>}, {<<>>})
    /\ InitReaders
    /\ InitSearch({0})
    /\ InitLast
SpecFilter == InitFilterOnly /\ [][NextFilter]_vars

\* Running a query twice on a table.
InitQueryOnly ==
    /\ InitParse({<<>>}) /\ InitIntern /\ InitThreads
    /\ InitFetch({<<>>}) /\ InitIndexBuild({<<>>})
    /\ InitFilter
    /\ InitQuery(QueryTexts, QueryTables)
    /\ InitReaders
    /\ InitSearch({0})
    /\ InitLast
SpecQuery == InitQueryOnly /\ [][NextQuery]_vars

\* Threads reading entries of the container.
InitReadersOnly ==
    /\ InitParse({<<>>}) /\ InitIntern /\ InitThreads
    /\ InitFetch({SortedSeq({1, 2})})
    /\ payload = <<>> /\ ipc = "start" /\ cacheDir = FALSE /\ itodo = {}
    /\ iw = [w \in Workers |-> 0] /\ ipanic = FALSE /\ idocs = <<>>
    /\ commits = 0 /\ stored = <<>>
    /\ InitLater
SpecReaders == InitReadersOnly /\ [][NextReaders]_vars

\* A full-text predicate built on an index and called on stories.
InitSearchOnly ==
    /\ InitParse({<<>>}) /\ InitIntern /\ InitThreads
    /\ InitFetch({<<>>}) /\ InitIndexBuild({<<>>})
    /\ InitFilter /\ InitQuery({<<>>}, {<<>>}) /\ InitReaders
    /\ InitSearch(0..MaxHits)
    /\ InitLast
SpecSearch == InitSearchOnly /\ [][NextSearch]_vars

\* The shell of either binary on any typed input.
InitShellOnly ==
    /\ InitParse({<<>>}) /\ InitIntern /\ InitThreads
    /\ InitFetch({<<>>}) /\ InitIndexBuild({<<>>})
    /\ InitFilter /\ InitQuery({<<>>}, {<<>>}) /\ InitReaders
    /\ InitSearch({0})
    /\ InitShell({"fimfareader", "cli"}, ShellInputs)
    /\ InitDecode({NoLine})
    /\ InitEscape({<<>>})
    /\ InitView({0})
SpecShell == InitShellOnly /\ [][NextShell]_vars
\* main is one thread that nothing holds back: every step it can take, it
\* takes.
SpecShellFair == SpecShell /\ WF_vars(NextShell)

\* deserialize on any index line.
InitDecodeOnly ==
    /\ InitParse({<<>>}) /\ InitIntern /\ InitThreads
    /\ InitFetch({<<>>}) /\ InitIndexBuild({<<>>})
    /\ InitFilter /\ InitQuery({<<>>}, {<<>>}) /\ InitReaders
    /\ InitSearch({0})
    /\ InitShell({"fimfareader"}, {<<>>})
    /\ InitDecode(IndexLines)
    /\ InitEscape({<<>>})
    /\ InitView({0})
SpecDecode == InitDecodeOnly /\ [][NextDecode]_vars

\* Values written with escapes and read back.
InitEscapeOnly ==
    /\ InitParse({<<>>}) /\ InitIntern /\ InitThreads
    /\ InitFetch({<<>>}) /\ InitIndexBuild({<<>>})
    /\ InitFilter /\ InitQuery({<<>>}, {<<>>}) /\ InitReaders
    /\ InitSearch({0})
    /\ InitShell({"fimfareader"}, {<<>>})
    /\ InitDecode({NoLine})
    /\ InitEscape(Values)
    /\ InitView({0})
SpecEscape == InitEscapeOnly /\ [][NextEscape]_vars

\* Filtering the rows of a story view.
InitViewOnly ==
    /\ InitParse({<<>>}) /\ InitIntern /\ InitThreads
    /\ InitFetch({<<>>}) /\ InitIndexBuild({<<>>})
    /\ InitFilter /\ InitQuery({<<>>}, {<<>>}) /\ InitReaders
    /\ InitSearch({0})
    /\ InitShell({"fimfareader"}, {<<>>})
    /\ InitDecode({NoLine})
    /\ InitEscape({<<>>})
    /\ InitView(0..MaxRows)
SpecView == InitViewOnly /\ [][NextView]_vars

\* ================================================================ claims
Done == ppc = "done"

\* The body lines of the input, and those that deserialize rejects.
BodyIdx == {i \in 1..Len(lines) : ~lines[i].one}
LineFails(l) ==
    ~l.colon \/ ~l.valid \/ ~l.key.n \/ l.key.v # l.story.id
RECURSIVE OneByteChars(_)
OneByteChars(ls) ==
    IF ls = <<>> THEN <<>>
    ELSE (IF Head(ls).one THEN <<Head(ls).ch>> ELSE <<>>)
         \o OneByteChars(Tail(ls))

\* C1: whenever parse returns Ok(table), the table is strictly ascending by
\* story id (so no id occurs twice), whatever the order in which the pool
\* workers delivered the stories.
C1_TableStrictlyAscending ==
    result.kind = "ok" =>
        \A i, j \in 1..Len(result.table) :
            i < j => result.table[i].id < result.table[j].id

\* C1 witness: a table of two stories whose lines came in descending order.
C1_Witness ==
    /\ result.kind = "ok"
    /\ Len(result.table) >= 2
    /\ \E i, j \in BodyIdx : i < j /\ lines[i].story.id > lines[j].story.id

\* C2: fetch(k) returns Some(s) with s.id = k exactly when the table holds a
\* story with id k, else None; the call leaves the table as it was.
C2_FetchFindsExactlyStoredIds ==
    [][fetched'.called =>
        /\ index' = index
        /\ fetched'.some <=> \E i \in 1..Len(index) : index[i].id = fetched'.key
        /\ fetched'.some =>
              /\ fetched'.story.id = fetched'.key
              /\ \E i \in 1..Len(index) : index[i] = fetched'.story]_vars

\* C2 witness: a hit on the last story of a table of at least three.
C2_Witness ==
    /\ fetched.called
    /\ fetched.some
    /\ Len(index) >= 3
    /\ fetched.story = index[Len(index)]

\* C3 (as claimed): intern calls with equal values, with no clear between
\* them, all return the same handle, under every interleaving of get and set.
C3_EqualValuesShareHandle ==
    \A h1, h2 \in handed : h1.v = h2.v => h1 = h2

\* C4: in a loaded table, stories with equal author blocks hold the same
\* author handle, and tag entries equal by content (in one story or in two)
\* are the same handle, whatever the decoding order was.
C4_EqualBlocksShareHandles ==
    result.kind = "ok" =>
        LET t == result.table
        IN \A i, j \in 1..Len(t) :
             /\ t[i].author.v = t[j].author.v => t[i].author = t[j].author
             /\ \A m \in 1..Len(t[i].tags), n \in 1..Len(t[j].tags) :
                    t[i].tags[m].v = t[j].tags[n].v
                        => t[i].tags[m] = t[j].tags[n]

\* C4 witness: two stories with equal author blocks that the racing decoders
\* gave different handles, and a tag they share; the loaded table exists.
C4_Witness ==
    /\ result.kind = "ok"
    /\ Len(result.table) = 2
    /\ rres.table[1].author.v = rres.table[2].author.v
    /\ rres.table[1].author # rres.table[2].author
    /\ \E m \in 1..Len(result.table[1].tags),
          n \in 1..Len(result.table[2].tags) :
            result.table[1].tags[m].v = result.table[2].tags[n].v

\* C5: two body lines with the same story id, anywhere in the stream, make
\* load end in an error; no table is ever produced.
HasDuplicateId ==
    \E i, j \in BodyIdx :
        /\ i < j
        /\ lines[i].valid /\ lines[j].valid
        /\ lines[i].story.id = lines[j].story.id
C6_WrapperCountAborts ==
    OneByteChars(lines) # <<"{", "}">> =>
        /\ result.kind # "ok"
        /\ Done => result.kind = "err"

\* C6 witness: three wrapper lines around body lines that all decode.
C6_Witness ==
    /\ Done
    /\ Len(OneByteChars(lines)) = 3
    /\ BodyIdx # {}
    /\ \A i \in BodyIdx : ~LineFails(lines[i])
    /\ result = Err("Invalid file structure")

\* C7 (as claimed): load succeeds only on the strict layout: first line `{`,
\* last line `}`, every story line between them.
StrictLayout ==
    /\ Len(lines) >= 2
    /\ lines[1] = OneChar("{")
    /\ lines[Len(lines)] = OneChar("}")
    /\ \A i \in 2..(Len(lines) - 1) : ~lines[i].one
C7_OnlyStrictLayoutLoads == result.kind = "ok" => StrictLayout

\* C8: one body line that fails to decode makes parse return an error, never
\* Ok, whether the error is seen while the producer still sends or after it
\* has finished.
HasBadLine == \E i \in BodyIdx : LineFails(lines[i])
C8_DecodeErrorAborts ==
    HasBadLine =>
        /\ result.kind # "ok"
        /\ Done => result.kind = "err"

\* C8 witness: the producer finished sending and the wrappers were right; the
\* error came back on the result channel.
C8_Witness ==
    /\ Done
    /\ HasBadLine
    /\ ~sendFailed
    /\ result.kind = "err"
    /\ result = rres

\* C9: once a send on the work channel has failed, the producer reads and
\* sends nothing more, never returns Ok, and returns the error the reducer
\* sent if it sent one.
C9_SendFailureReportsReducerError ==
    [][sendFailed =>
        /\ pos' = pos
        /\ wrappers' = wrappers
        /\ chan' = <<>>
        /\ result'.kind # "ok"
        /\ ppc' \in {"recv_err", "done"}
        /\ ppc' = "done" => result'.kind = "err"
        /\ (ppc' = "done" /\ rpc' = "exit" /\ rres'.kind = "err")
              => result' = rres']_vars

\* C9 witness: the producer returned the reducer's own error after a failed
\* send.
C9_Witness ==
    /\ sendFailed
    /\ Done
    /\ rpc = "exit"
    /\ rres.kind = "err"
    /\ result = rres

\* C10 (as claimed): a failure in a worker reaches the caller as an error
\* value: parse returns Err when its worker thread died without a result, and
\* the index build returns an error, not a panic, when a worker fails on a
\* story.
C10_WorkerFailureIsAnErrorValue ==
    /\ (rpc = "panicked" /\ Done) => result.kind = "err"
    /\ ipc # "panicked"

\* C11 (as claimed): the work channel is bounded: the lines sent and not yet
\* received never reach a bound set by the length of the input, because the
\* producer blocks on send while the channel is full. Any fixed capacity is
\* below the length of some input; here it is below MaxLines.
C11_WorkChannelIsBounded == Len(chan) < MaxLines

\* C12: whatever the split of the table and the order in which the pieces are
\* folded and reduced, filter returns exactly the stories of the table that
\* the predicate accepts, each once, in ascending id order.
C12_FilterReturnsMatchesInIdOrder ==
    fout.done =>
        /\ \A k \in 1..Len(fout.list) :
              /\ fout.list[k].id \in fpred
              /\ \E i \in 1..Len(index) : index[i] = fout.list[k]
        /\ \A i \in 1..Len(index) :
              index[i].id \in fpred
                  => \E k \in 1..Len(fout.list) : fout.list[k] = index[i]
        /\ \A j, k \in 1..Len(fout.list) :
              j < k => fout.list[j].id < fout.list[k].id

\* C12 witness: the table was split, a later piece was folded before an
\* earlier one, and filter returned some stories and left out another.
C12_Witness ==
    /\ fout.done
    /\ Len(fout.list) >= 2
    /\ Len(fout.list) < Len(index)
    /\ \E j, k \in 1..Len(forder) : j < k /\ forder[j] > forder[k]

\* The story of the query's table with the given id.
StoryOf(id) ==
    qstories[CHOOSE i \in 1..Len(qstories) : qstories[i].id = id]

\* C13 (as claimed): the result of a query depends only on the table and the
\* query text: two runs of the same query on the same table, at different
\* times, both compile or both fail, and return the same list of stories.
C13_RunsAgree ==
    (Finished(1) /\ Finished(2)) =>
        /\ qrun[1].pc = qrun[2].pc
        /\ qrun[1].out = qrun[2].out

\* The field whose name is the longest one the text begins with.
AllFields == StoryFields \o AuthorFields \o ArchiveFields
LongestField(text) ==
    LET fits == {k \in 1..Len(AllFields) : IsPrefix(AllFields[k].tag, text)}
    IN AllFields[CHOOSE k \in fits :
                    \A j \in fits :
                        Len(AllFields[j].tag) <= Len(AllFields[k].tag)]

\* C15 (as claimed): a leaf whose field name begins with a shorter field name
\* compiles to a comparison of the longer field; `author id = 12345` compiles
\* to integer equality on the author id.
C15_LongestFieldNameWins ==
    \A r \in Runs :
        (qrun[r].pc # "start" /\ qtext \in LongNameLeaves) =>
            /\ qrun[r].pc # "rejected"
            /\ qrun[r].f.op = "leaf"
            /\ qrun[r].f.acc = LongestField(qtext).acc
            /\ qtext = AuthorIdLeaf =>
                  qrun[r].f = LeafFilter("int", "author.id", "Exact", 12345,
                                         <<>>, NoDate)

\* C16 (as claimed): `chapters > 10, likes > 100 | author = "Fluttershy"`
\* compiles and returns the stories 1 and 2 of the fixture.
C16_FixtureQueryReturnsOneAndTwo ==
    \A r \in Runs :
        (qtext = FixtureQuery /\ qstories = Fixture) =>
            /\ qrun[r].pc # "rejected"
            /\ qrun[r].pc = "done" => qrun[r].out = <<1, 2>>

IsInfix(p, s) ==
    \E i \in 0..(Len(s) - Len(p)) : SubSeq(s, i + 1, i + Len(p)) = p
HasBadLeaf(text) == \E l \in BadLeaves : IsInfix(l, text)

\* C17: a query with a leaf that does not compile is rejected as a whole,
\* wherever the leaf stands: no filter is returned and none is called.
C17_UncompilableLeafRejectsQuery ==
    \A r \in Runs :
        (qrun[r].pc # "start" /\ HasBadLeaf(qtext)) =>
            /\ qrun[r].pc = "rejected"
            /\ qrun[r].f = NoFilter
            /\ qrun[r].i = 0
            /\ qrun[r].out = <<>>

\* C17 witness: the leaf that does not compile is the last member of a `|`
\* list whose first member compiles, and the query was rejected.
C17_Witness ==
    /\ \E l \in BadLeaves :
          qtext = ChaptersLeaf \o <<Space, "|", Space>> \o l
    /\ qrun[1].pc = "rejected"
    /\ qrun[2].pc = "rejected"

\* C18: a comparison of an optional timestamp, with any of the four
\* operators, is false of every story that lacks the timestamp; no story
\* without `published` is in the result of the range query.
C18_AbsentTimestampNeverMatches ==
    \A r \in Runs :
        /\ (qtext \in DateLeaves /\ qrun[r].pc \in {"filter", "done"}) =>
              \A k \in 1..Len(qrun[r].out) :
                  DtuField(StoryOf(qrun[r].out[k]), qrun[r].f.acc).some
        /\ qtext = RangeQuery =>
              \A k \in 1..Len(qrun[r].out) :
                  StoryOf(qrun[r].out[k]).date_published.some

\* C18 witness: the range query went through the fixture and returned the
\* one story published in the range, not the story without the timestamp.
C18_Witness ==
    /\ qtext = RangeQuery
    /\ qstories = Fixture
    /\ qrun[1].pc = "done"
    /\ qrun[1].out = <<1>>

\* The group at a path of a filter.
RECURSIVE NodeAt(_, _)
NodeAt(f, path) ==
    IF path = <<>> THEN f ELSE NodeAt(f.kids[Head(path)], Tail(path))

\* C19: a group calls its children from left to right; a `,` group calls a
\* child only after all children before it returned true, a `|` group only
\* after all children before it returned false.
C19_GroupsShortCircuit ==
    \A r \in Runs :
        \A j \in 1..Len(qrun[r].log) :
            LET log == qrun[r].log
                node == NodeAt(qrun[r].f, log[j].g)
            IN /\ node.op \in {"and", "or", "not"}
               /\ log[j].k \in 1..Len(node.kids)
               /\ \A i \in 1..(j - 1) :
                     log[i].g = log[j].g => log[i].k < log[j].k
               /\ log[j].k > 1 =>
                     \E i \in 1..(j - 1) :
                         /\ log[i].g = log[j].g
                         /\ log[i].k = log[j].k - 1
                         /\ node.op = "and" => log[i].v
                         /\ node.op = "or" => ~log[i].v

\* C19 witness: in one call the first `,` group stopped at its first child,
\* which returned false, and the `|` group stopped at its second child, which
\* returned true: the third was not called.
C19_Witness ==
    \E r \in Runs :
        LET log == qrun[r].log
        IN /\ qrun[r].f.op = "or"
           /\ Len(qrun[r].f.kids) = 3
           /\ qrun[r].f.kids[1].op = "and"
           /\ \E i \in 1..Len(log) : log[i] = Called(<<1>>, 1, FALSE)
           /\ \A i \in 1..Len(log) : log[i].g = <<1>> => log[i].k = 1
           /\ \E i \in 1..Len(log) : log[i] = Called(<<>>, 2, TRUE)
           /\ \A i \in 1..Len(log) : log[i].g = <<>> => log[i].k < 3

\* The threads that hold an entry of the container, or are about to open one.
InsideReader == {t \in Threads : rth[t].pc \in {"by_name", "opened"}}

\* C14: at any moment at most one thread is inside read or identity between
\* locking the container and finishing with the entry; that thread holds the
\* lock, and the reader stays at the entry the thread has opened.
C14_ReadersAreMutuallyExclusive ==
    /\ Cardinality(InsideReader) <= 1
    /\ \A t \in InsideReader :
          /\ mutex = t
          /\ rth[t].pc = "opened" => zpos = rth[t].path

\* C14 witness: a thread has opened a story's entry inside read while another
\* thread, which called identity, waits for the lock.
C14_Witness ==
    \E t, u \in Threads :
        /\ rth[t].pc = "opened"
        /\ rth[t].op = "read"
        /\ rth[u].pc = "lock"
        /\ rth[u].op = "identity"

\* The hits of the one search that pass the threshold.
GoodHits ==
    {hits[i].sid : i \in {j \in 1..Len(hits) :
                             /\ j <= TopDocsLimit
                             /\ hits[j].score > ScoreThreshold}}

\* C20: the closure of Searcher::parse is built with exactly one search and
\* calling it searches no more; it is true of a story iff the story's id is
\* among the first TopDocsLimit hits with a score above ScoreThreshold.
C20_ClosureIsMembershipInGoodHits ==
    /\ searches = (IF built THEN 1 ELSE 0)
    /\ applied.called => (applied.val <=> applied.id \in GoodHits)

\* C20 witness: more documents match than the search returns, and the
\* closure was false of a story whose document is among the returned hits
\* with a score of exactly ScoreThreshold.
C20_Witness ==
    /\ Len(hits) > TopDocsLimit
    /\ applied.called
    /\ ~applied.val
    /\ searches = 1
    /\ \E i \in 1..TopDocsLimit :
          hits[i].sid = applied.id /\ hits[i].score = ScoreThreshold

\* The closure has run to its end, or to its panic, for story i of the table.
Processed(i) ==
    /\ ipc # "start"
    /\ i \notin itodo
    /\ \A w \in Workers : iw[w] # i

\* docs holds exactly one document for every story of the table.
OneDocPerStory(docs) ==
    /\ Len(docs) = Len(index)
    /\ \A i \in 1..Len(index) :
           Cardinality({k \in 1..Len(docs) : docs[k] = index[i].id}) = 1

\* C21 (as claimed): a story whose package has an .html entry that is not
\* UTF-8 still gets its document written once the closure has run for it, and
\* when no other story's payload fails the build does not end in a panic.
C21_UndecodableEntryIsSkipped ==
    \A i \in 1..Len(index) :
        (payload[i] = "not_utf8" /\ Processed(i)) =>
            /\ \E k \in 1..Len(idocs) : idocs[k] = index[i].id
            /\ (\A j \in 1..Len(index) : j # i => payload[j] = "ok")
                   => ipc # "panicked"

C23_ShellExitsAtEndOfFile ==
    (sin = <<>> /\ spc = "input") ~> (spc = "exited")

\* The line's JSON has a key that its struct does not declare.
HasUnknownKey(l) ==
    \/ ~(l.keys \subseteq StoryDeclared)
    \/ ~(l.archive \subseteq ArchiveDeclared)
    \/ ~(l.author \subseteq AuthorDeclared)

\* C24 (as claimed): decoding a line whose JSON object, or a nested object of
\* it, has a key that is not a declared field fails.
C24_UnknownKeyFailsDecoding ==
    (jres.called /\ HasUnknownKey(jline)) => ~jres.ok

\* C25: every call of parse comes to its end, whatever the stream (a failed
\* read and a wrapper failure included) and whatever the schedule: the
\* producer returns, the thread of the parser has sent its result or died,
\* and at no time is more than one result in the result channel.
C25_ParseTerminates ==
    /\ <>[](ppc = "done" /\ rpc \in {"exit", "panicked"})
    /\ [](Len(res) <= 1)
    /\ [](ppc = "done" => ~txAlive)

\* C25 witness: parse returned early on a failed read while lines were still
\* in the work channel, and the parser thread has ended all the same.
C25_Witness ==
    /\ ppc = "done"
    /\ result = Err("Could not read line")
    /\ rpc = "exit"
    /\ \E i \in 1..Len(lines) : ~Readable(lines[i]) /\ i > 1

\* The byte offset, in the query as it was passed to parse, of the input that
\* was left when parsing stopped: the rest ends where the query's last
\* character that is not white space ends.
StopOffset(query, rest) == ByteLen(TrimEnd(query)) - ByteLen(rest)

\* C26 (as claimed): the position in "Incomplete input at N" is the byte
\* offset in the query passed to parse of the point where parsing stopped,
\* with white space before or after the query as well.
C26_PositionIsOffsetInQuery ==
    (spc = "input" /\ sout.kind = "incomplete")
        => sout.at = StopOffset(sbuf, sout.rest)

\* C27: a value written with a backslash before each `)`, `,`, `|` and `\`
\* is read back by target whole, and what target returns is the value with
\* the white space at its ends trimmed.
C27_EscapedValueRoundTrips ==
    eres.called =>
        /\ eres.r.st = "ok"
        /\ eres.r.rest = <<>>
        /\ eres.r.val = trim(ev)

\* C27 witness: a value in which a backslash stands before another delimiter
\* and white space stands at the end has been read back.
C27_Witness ==
    /\ eres.called
    /\ Len(ev) = MaxValue
    /\ ev[1] = Backslash
    /\ ev[2] = ")"
    /\ ev[3] = Backslash
    /\ ev[4] = Space
    /\ eres.r.val = <<Backslash, ")", Backslash>>

\* C28: read and identity free the lock on every return, the error returns
\* included: a thread that is not inside a call does not hold the lock, the
\* lock is free when no thread is inside, a thread that waits for a free lock
\* can take it, and no step of read or identity changes the story table.
C28_EveryReturnFreesTheLock ==
    /\ [](\A t \in Threads : rth[t].pc \in {"idle", "lock"} => mutex # t)
    /\ [](InsideReader = {} => mutex = 0)
    /\ [](\A t \in Threads :
              (rth[t].pc = "lock" /\ InsideReader = {}) => ENABLED Lock(t))
    /\ [][index' = index]_vars

\* C28 witness: a thread's read came back with an error after the entry was
\* opened, and another thread has since taken the lock and opened an entry.
C28_Witness ==
    \E t, u \in Threads :
        /\ rth[t].pc = "idle"
        /\ rth[t].ret = "Could not read story data"
        /\ rth[u].pc = "opened"
        /\ mutex = u
        /\ index # <<>>

\* C29 (as claimed): whenever load_index finds the directory and reuses it,
\* the directory holds a committed index with one document for every story
\* of the table.
C29_ReusedDirectoryHoldsFullIndex ==
    ipc = "reused" => OneDocPerStory(stored)

\* C30: between calls of filter the cached flag of every row equals column 1
\* of the row in the store and, once filter has been called, the last
\* predicate's result on the row's story; the rows a call has written are
\* rows whose flag differs from what it was when the call began, and when the
\* call is over they are all of those rows.
C30_VisibleMirrorsTheStore ==
    /\ vi = 0 =>
           /\ visible = column1
           /\ vpred # NoPredicate =>
                  /\ \A i \in Rows : visible[i] = (i \in vpred)
                  /\ vwrites = {i \in Rows : vprev[i] # visible[i]}
    /\ \A i \in vwrites : bitmap[i] # vprev[i] /\ column1[i] = bitmap[i]
    /\ \A i \in Rows \ vwrites : column1[i] = vprev[i]

\* C30 witness: a second call of filter has returned; it hid one row, showed
\* another again and left the third alone.
C30_Witness ==
    /\ vi = 0
    /\ Len(visible) = MaxRows
    /\ vprev = <<TRUE, FALSE, TRUE>>
    /\ visible = <<FALSE, TRUE, TRUE>>
    /\ vwrites = {1, 2}

====
